---------------------------- MODULE Spec2Model ----------------------------
(***************************************************************************)
(* Model of the screenshot pipeline of kmp-tools:                          *)
(*   src/screenshots/vision_analyzer.py   (oracle client and its fallback) *)
(*   src/screenshots/screenshot_pipeline.py (analyze / generate / main)    *)
(*   src/screenshots/config.py            (size tables, extensions)        *)
(*                                                                         *)
(* File names and titles are sequences of characters, so that the name     *)
(* computations of the code (stem, suffix, whitespace normalisation, title *)
(* slug, two-digit rank prefix) are computed and can collide.              *)
(***************************************************************************)
EXTENDS Integers, Sequences, FiniteSets, TLC

(***************************************************************************)
(* Characters                                                              *)
(***************************************************************************)

\* U+202F NARROW NO-BREAK SPACE, written as a token.
NNBSP == "NNBSP"

\* U+00A0 NO-BREAK SPACE, written as a token.
NBSP == "NBSP"

\* Unicode code point of each character of the model's alphabet.
CharCode(c) ==
    CASE c = " " -> 32   [] c = "!" -> 33   [] c = "'" -> 39
      [] c = "." -> 46   [] c = "0" -> 48   [] c = "1" -> 49
      [] c = "2" -> 50   [] c = "3" -> 51   [] c = "4" -> 52
      [] c = "5" -> 53   [] c = "6" -> 54   [] c = "7" -> 55
      [] c = "8" -> 56   [] c = "9" -> 57
      [] c = "E" -> 69   [] c = "G" -> 71   [] c = "H" -> 72
      [] c = "J" -> 74   [] c = "M" -> 77   [] c = "N" -> 78
      [] c = "P" -> 80   [] c = "_" -> 95
      [] c = "a" -> 97   [] c = "b" -> 98   [] c = "c" -> 99
      [] c = "d" -> 100  [] c = "e" -> 101  [] c = "g" -> 103
      [] c = "j" -> 106  [] c = "k" -> 107  [] c = "m" -> 109
      [] c = "n" -> 110  [] c = "o" -> 111  [] c = "p" -> 112
      [] c = "t" -> 116  [] c = "x" -> 120  [] c = "y" -> 121
      [] c = "z" -> 122  [] c = NBSP -> 160
      [] c = NNBSP -> 8239

\* unicodedata.category(c) in ('Zs', 'Zl', 'Zp')
IsSeparator(c) == c \in {" ", NBSP, NNBSP}

\* str.isalnum() of one character
isalnum(c) ==
    LET n == CharCode(c)
    IN  \/ (48 <= n /\ n <= 57)
        \/ (65 <= n /\ n <= 90)
        \/ (97 <= n /\ n <= 122)

Digit(d) ==
    CASE d = 0 -> "0" [] d = 1 -> "1" [] d = 2 -> "2" [] d = 3 -> "3"
      [] d = 4 -> "4" [] d = 5 -> "5" [] d = 6 -> "6" [] d = 7 -> "7"
      [] d = 8 -> "8" [] d = 9 -> "9"

(***************************************************************************)
(* Strings as sequences of characters                                      *)
(***************************************************************************)

\* str < str of Python: lexicographic by code point, a proper prefix first.
StrLess(a, b) ==
    \E i \in 1..(Len(a) + 1) :
        /\ i <= Len(b)
        /\ \A j \in 1..(i - 1) : a[j] = b[j]
        /\ (i = Len(a) + 1 \/ CharCode(a[i]) < CharCode(b[i]))

\* sorted(paths) for paths of one directory: ascending by name.
sorted(paths) == SortSeq(paths, StrLess)

RECURSIVE SetToSortedSeq(_)
\* sorted([...]) of a set of names
SetToSortedSeq(S) ==
    IF S = {} THEN <<>>
    ELSE LET m == CHOOSE x \in S : \A y \in S \ {x} : StrLess(x, y)
         IN  <<m>> \o SetToSortedSeq(S \ {m})

\* Index of the last "." of a name, 0 when there is none.
LastDot(name) ==
    LET D == {i \in 1..Len(name) : name[i] = "."}
    IN  IF D = {} THEN 0 ELSE CHOOSE i \in D : \A j \in D : j <= i

\* PurePath.suffix: from the last dot, unless the dot is first or last.
suffix(name) ==
    LET i == LastDot(name)
    IN  IF 1 < i /\ i < Len(name) THEN SubSeq(name, i, Len(name)) ELSE <<>>

\* PurePath.stem
stem(name) ==
    LET i == LastDot(name)
    IN  IF 1 < i /\ i < Len(name) THEN SubSeq(name, 1, i - 1) ELSE name

DotPng == <<".", "p", "n", "g">>

\* f"{rank:02d}" for 0 <= rank
Format02d(rank) ==
    IF rank < 10 THEN <<"0", Digit(rank)>>
    ELSE IF rank < 100 THEN <<Digit(rank \div 10), Digit(rank % 10)>>
    ELSE <<Digit(rank \div 100), Digit((rank \div 10) % 10), Digit(rank % 10)>>

(***************************************************************************)
(* Names and titles of the model                                           *)
(***************************************************************************)

N_a_png   == <<"a", ".", "p", "n", "g">>
N_a_jpg   == <<"a", ".", "j", "p", "g">>
N_b_png   == <<"b", ".", "p", "n", "g">>
N_c_png   == <<"c", ".", "p", "n", "g">>
N_ab_sp   == <<"a", " ", "b", ".", "p", "n", "g">>
N_ab_nb   == <<"a", NNBSP, "b", ".", "p", "n", "g">>
N_ab_nbsp == <<"a", NBSP, "b", ".", "p", "n", "g">>
N_01_Map  == <<"0", "1", "_", "M", "a", "p", ".", "p", "n", "g">>
N_temp01a == <<"_", "t", "e", "m", "p", "_", "0", "1", "_", "a", ".", "p", "n", "g">>
N_z_png   == <<"z", ".", "p", "n", "g">>
N_02_Map  == <<"0", "2", "_", "M", "a", "p", ".", "p", "n", "g">>
N_d_Png   == <<"d", ".", "P", "n", "g">>

T_GetHooked == <<"G", "e", "t", " ", "H", "o", "o", "k", "e", "d", "!">>
T_Map       == <<"M", "a", "p">>
T_MyMap     == <<"M", "y", " ", "M", "a", "p", "!">>

(***************************************************************************)
(* vision_analyzer.py: the fallback of analyze_and_rank_screenshots        *)
(***************************************************************************)

FallbackReason   == "Fallback alphabetical ordering (API error)"
FallbackSubtitle == "Your intelligent fishing companion"

\* Confidence is kept in hundredths: 0.0 is 0, 0.95 is 95.
FallbackRecord(name, idx) ==
    [original_name    |-> name,
     rank             |-> idx,
     rank_reason      |-> FallbackReason,
     hero_shot        |-> (idx = 1),
     title            |-> T_GetHooked,
     subtitle         |-> FallbackSubtitle,
     detected_content |-> <<"unknown">>,
     confidence       |-> 0]

\* Mutant: enumerate the paths in the order passed, without sorting.
FallbackUnsorted(image_paths) ==
    [idx \in 1..Len(image_paths) |-> FallbackRecord(image_paths[idx], idx)]

\* Mutant: enumerate from 0, as enumerate() does by default.
FallbackFromZero(image_paths) ==
    LET s == sorted(image_paths)
    IN  [idx \in 1..Len(s) |-> FallbackRecord(s[idx], idx - 1)]

\* for idx, img_path in enumerate(sorted(image_paths), 1): fallback.append(...)
Fallback(image_paths) ==
    LET s == sorted(image_paths)
    IN  [idx \in 1..Len(s) |-> FallbackRecord(s[idx], idx)]

(***************************************************************************)
(* config.py                                                               *)
(***************************************************************************)

\* SIZES: the sizes of each platform, in the order of the table.
SIZES(platform) ==
    CASE platform = "android"    -> << <<1080, 1920>>, <<1440, 2560>> >>
      [] platform = "ios_iphone" -> << <<1320, 2868>>, <<1290, 2796>>,
                                       <<1284, 2778>>, <<1242, 2208>> >>
      [] platform = "ios_ipad"   -> << <<2064, 2752>>, <<1668, 2388>> >>
      [] OTHER                   -> << >>

SIZE_LABELS(size) ==
    CASE size = <<1080, 1920>> -> "phone_1080x1920"
      [] size = <<1440, 2560>> -> "phone_1440x2560"
      [] size = <<1320, 2868>> -> "6.9_inch"
      [] size = <<1290, 2796>> -> "6.7_inch"
      [] size = <<1284, 2778>> -> "6.5_inch"
      [] size = <<1242, 2208>> -> "5.5_inch"
      [] size = <<2064, 2752>> -> "13_inch"
      [] size = <<1668, 2388>> -> "11_inch"

IMAGE_EXTENSIONS ==
    { <<".", "p", "n", "g">>, <<".", "j", "p", "g">>, <<".", "j", "p", "e", "g">>,
      <<".", "P", "N", "G">>, <<".", "J", "P", "G">>, <<".", "J", "P", "E", "G">> }

(***************************************************************************)
(* screenshot_pipeline.py: tables and path helpers                         *)
(***************************************************************************)

\* The platforms dict of analyze(), in insertion order.
Platforms == <<"android", "ios_iphone", "ios_ipad">>

PlatformSet == {Platforms[i] : i \in 1..Len(Platforms)}

DeviceType(platform) ==
    CASE platform = "android"    -> "phone"
      [] platform = "ios_iphone" -> "iphone"
      [] platform = "ios_ipad"   -> "ipad"

\* theme = 'gradient_green' if platform == 'android' else 'gradient_blue'
ThemeOf(platform) ==
    IF platform = "android" THEN "gradient_green" ELSE "gradient_blue"

\* The directory generate() cleans for a platform key; << >> when it cleans none.
CleanPath(platform) ==
    CASE platform = "android"    -> <<"android">>
      [] platform = "ios_iphone" -> <<"ios", "iphone">>
      [] platform = "ios_ipad"   -> <<"ios", "ipad">>
      [] OTHER                   -> << >>

\* The directory generate() writes one size of a platform into.
OutputPath(platform, size_label) ==
    IF platform = "android" THEN <<platform, "phone", size_label>>
    ELSE IF platform = "ios_iphone" THEN <<"ios", "iphone", size_label>>
    ELSE <<"ios", "ipad", size_label>>

N_RESULTS_md == <<"R", "E", "S", "U", "L", "T", "S", ".", "m", "d">>

IsPrefix(p, q) == Len(p) <= Len(q) /\ SubSeq(q, 1, Len(p)) = p

(***************************************************************************)
(* The file system: a directory is a set of [name, content] entries, the   *)
(* output tree a set of directories and a set of [dir, name, content].     *)
(***************************************************************************)

HasFile(files, n) == \E f \in files : f.name = n

ContentOf(files, n) == (CHOOSE f \in files : f.name = n).content

NamesOf(files) == {f.name : f \in files}

\* shutil.move(src, dst) inside one directory, src present: os.rename, which
\* replaces an existing dst.
move(files, src, dst) ==
    {f \in files : f.name \notin {src, dst}}
        \cup {[name |-> dst, content |-> ContentOf(files, src)]}

\* Path.mkdir(parents=True, exist_ok=True)
mkdir(dirs, path) == dirs \cup {SubSeq(path, 1, k) : k \in 0..Len(path)}

\* Writing a file replaces the file of that name.
WriteFile(files, dir, n, content) ==
    {f \in files : ~(f.dir = dir /\ f.name = n)}
        \cup {[dir |-> dir, name |-> n, content |-> content]}

\* shutil.rmtree(path)
rmtree(out, path) ==
    [dirs  |-> {d \in out.dirs : ~IsPrefix(path, d)},
     files |-> {f \in out.files : ~IsPrefix(path, f.dir)}]

(***************************************************************************)
(* screenshot_pipeline.py: the name computations of analyze()              *)
(***************************************************************************)

\* Mutant: names are compared as they are.
normalize_nothing(s) == s

\* ''.join(' ' if unicodedata.category(c) in ('Zs','Zl','Zp') else c for c in s)
normalize_whitespace(s) ==
    [i \in 1..Len(s) |-> IF IsSeparator(s[i]) THEN " " ELSE s[i]]

\* The first file of file_map whose normalized name is the record's, or << >>.
MatchFile(file_map, original_name) ==
    LET n == normalize_whitespace(original_name)
        I == {i \in 1..Len(file_map) : normalize_whitespace(file_map[i]) = n}
    IN  IF I = {} THEN << >>
        ELSE file_map[CHOOSE i \in I : \A j \in I : i <= j]

TempPrefix == <<"_", "t", "e", "m", "p", "_">>

\* f"_temp_{result['rank']:02d}_{original_path.stem}.png"
temp_name_in_place(rank, original) == original

temp_name(rank, original) ==
    TempPrefix \o Format02d(rank) \o <<"_">> \o stem(original) \o DotPng

\* title.replace(' ', '_').replace('"', '').replace("'", ''), then only the
\* characters with c.isalnum() or c == '_'
title_slug(title) ==
    LET t1 == [i \in 1..Len(title) |-> IF title[i] = " " THEN "_" ELSE title[i]]
        t2 == SelectSeq(t1, LAMBDA c : c \notin {"\"", "'"})
    IN  SelectSeq(t2, LAMBDA c : isalnum(c) \/ c = "_")

\* Mutant: the final name is the slug alone, without the rank prefix.
new_name_unranked(rank, title) == title_slug(title) \o DotPng

\* f"{result['rank']:02d}_{title_slug}.png"
new_name(rank, title) ==
    Format02d(rank) \o <<"_">> \o title_slug(title) \o DotPng

\* del file_map[name]
Without(file_map, n) == SelectSeq(file_map, LAMBDA x : x # n)

\* The keys lines 229-239 read with [] from a record.
ConfigKeys ==
    {"rank", "title", "original_name", "rank_reason", "hero_shot", "subtitle",
     "detected_content", "confidence"}

\* Lines 230-240: the config entry of one renamed file.
ScreenshotConfig(result) ==
    [file             |-> new_name(result.rank, result.title),
     original_name    |-> result.original_name,
     rank             |-> result.rank,
     rank_reason      |-> result.rank_reason,
     hero_shot        |-> result.hero_shot,
     title            |-> result.title,
     subtitle         |-> result.subtitle,
     detected_content |-> result.detected_content,
     confidence       |-> result.confidence]

PlatformConfig(platform, screenshots) ==
    [key         |-> platform,
     theme       |-> ThemeOf(platform),
     device_type |-> DeviceType(platform),
     screenshots |-> screenshots]

(***************************************************************************)
(* Bounds and input universes                                              *)
(***************************************************************************)

\* Command-line invocations in one behaviour.
MaxRuns == 2

\* Records the oracle returns in one behaviour, over all its answers.
MaxRecords == 2

\* The ranks the oracle assigns.
OracleRanks == {1, 2}

\* Longest path list handed to the fallback when it is checked on its own.
MaxPaths == 3

OracleTitles == {T_Map, T_MyMap}

\* Input/<platform>/ directories the behaviours start from.  A file's content
\* is named after the file it started as; readable says whether it decodes.
File(n, ok) == [name |-> n, content |-> [id |-> n, readable |-> ok]]

NoDir == [exists |-> FALSE, files |-> {}]

Dir(files) == [exists |-> TRUE, files |-> files]

Tree(android, iphone, ipad) ==
    [p \in PlatformSet |->
        CASE p = "android" -> android [] p = "ios_iphone" -> iphone
          [] p = "ios_ipad" -> ipad]

T_ab      == Tree(Dir({File(N_a_png, TRUE), File(N_b_png, TRUE)}), NoDir, NoDir)
T_stem    == Tree(Dir({File(N_a_png, TRUE), File(N_a_jpg, TRUE)}), NoDir, NoDir)
T_rerun   == Tree(Dir({File(N_01_Map, TRUE), File(N_a_png, FALSE)}), NoDir, NoDir)
T_temp    == Tree(Dir({File(N_temp01a, TRUE), File(N_a_png, TRUE)}), NoDir, NoDir)
T_two     == Tree(Dir({File(N_ab_nb, TRUE)}),
                  Dir({File(N_c_png, TRUE), File(N_d_Png, TRUE)}), Dir({}))
T_gone    == Tree(Dir({File(N_02_Map, TRUE)}), NoDir, NoDir)
T_none    == Tree(NoDir, NoDir, NoDir)
T_swap    == Tree(Dir({File(N_01_Map, TRUE), File(N_02_Map, TRUE)}), NoDir, NoDir)

InputTrees == {T_ab, T_stem, T_rerun, T_temp, T_two}

EmptyOutput == [dirs |-> {}, files |-> {}]

\* An output tree left by earlier runs: an image of a screenshot that is no
\* longer configured, and a file outside every platform's subtree.
StaleOutput ==
    [dirs  |-> mkdir(mkdir({}, <<"android", "phone", "phone_1080x1920">>),
                     <<"web">>),
     files |-> { [dir |-> <<"android", "phone", "phone_1080x1920">>,
                  name |-> N_z_png, content |-> [foreign |-> "old"]],
                 [dir |-> <<"web">>, name |-> N_z_png,
                  content |-> [foreign |-> "web"]] }]

(***************************************************************************)
(* vision_analyzer.py: the oracle's answers                                *)
(***************************************************************************)

OracleRecord(n, r, t) ==
    [original_name    |-> n,
     rank             |-> r,
     rank_reason      |-> "ranked",
     hero_shot        |-> (r = 1),
     title            |-> t,
     subtitle         |-> "sub",
     detected_content |-> <<"map">>,
     confidence       |-> 95]

DropKey(rec, k) == [x \in (DOMAIN rec) \ {k} |-> rec[x]]

\* A name as the oracle may write it back: each space separator replaced by sp.
Respaced(n, sp) == [i \in 1..Len(n) |-> IF n[i] \in {" ", NBSP, NNBSP} THEN sp ELSE n[i]]

\* The names an answer may carry: those sent, the same with plain spaces or
\* with U+00A0 for their space separators, and one name that is no file.
AnswerNames(image_paths) ==
    LET S == {image_paths[i] : i \in 1..Len(image_paths)}
    IN  S \cup {Respaced(n, " ") : n \in S} \cup {Respaced(n, NBSP) : n \in S}
          \cup {N_z_png}

\* What one request of analyze_and_rank_screenshots can come back with: an
\* exception of the client (network, quota), a text json.loads rejects, or a
\* JSON array of at most n records; the records of an array may all lack the
\* key "title" or the key "confidence".
RankAnswers(image_paths, n) ==
    {[kind |-> k, shape |-> "none", recs |-> << >>] : k \in {"error", "unparsable"}}
    \cup
    UNION { { [kind |-> "list", shape |-> shape,
               recs |-> [i \in 1..len |->
                            IF shape = "ok" THEN l[i] ELSE DropKey(l[i], shape)]]
              : l \in [1..len -> {OracleRecord(nm, r, t) :
                                    nm \in AnswerNames(image_paths),
                                    r \in OracleRanks, t \in OracleTitles}] }
            : len \in 0..n, shape \in {"ok", "title", "confidence"} }

\* The keys the logging loop of analyze_and_rank_screenshots reads with [].
LoggedKeys == {"rank", "original_name", "rank_reason", "title", "subtitle"}

\* try: create, parse, log, return results / except Exception: return fallback
analyze_and_rank_screenshots(answer, image_paths) ==
    IF answer.kind = "list"
        /\ \A i \in 1..Len(answer.recs) : LoggedKeys \subseteq DOMAIN answer.recs[i]
    THEN answer.recs
    ELSE Fallback(image_paths)

\* What one request of analyze_screenshot can come back with.
SingleAnswers(n) ==
    {[kind |-> k] : k \in {"error", "unparsable"}}
    \cup (IF n = 0 THEN {}
          ELSE { [kind |-> "object",
                  obj  |-> IF shape = "ok"
                           THEN [title |-> t, subtitle |-> "sub",
                                 detected_content |-> <<"map">>, confidence |-> 95]
                           ELSE DropKey([title |-> t, subtitle |-> "sub",
                                         detected_content |-> <<"map">>,
                                         confidence |-> 95], shape)]
                 : t \in OracleTitles, shape \in {"ok", "title", "confidence"} })

\* try: create, parse, log title and subtitle, return / except: return fallback
analyze_screenshot(answer) ==
    IF answer.kind = "object" /\ {"title", "subtitle"} \subseteq DOMAIN answer.obj
    THEN answer.obj
    ELSE [title |-> T_GetHooked, subtitle |-> FallbackSubtitle,
          detected_content |-> <<"unknown">>, confidence |-> 0]

(***************************************************************************)
(* State                                                                   *)
(***************************************************************************)

VARIABLES
    env,        \* [api_key, input_exists]: ANTHROPIC_API_KEY set, Input/ exists
    inputDir,   \* Input/<platform>/ for each platform: [exists, files]
    configFile, \* screenshot_config.json: [exists |-> FALSE] or the document
    outputDir,  \* Output/: [dirs, files]
    run,        \* invocations of main() so far; also the clock of datetime.now()
    pc,         \* where the running invocation stands
    cmd,        \* the entry point main() dispatched to, with its arguments
    loc,        \* the locals of analyze() and generate()
    budget,     \* [runs, analyses, records]: invocations, analyses and oracle
                \* records still allowed in this behaviour
    exitCode,   \* exit status of the last invocation
    hist,       \* history of the running invocation, for the properties
    fnArg,      \* argument of the function applied on its own
    fnRes,      \* its result
    fnPc,       \* "ready" before the application, "done" after, "off" otherwise
    font_cache  \* ImageProcessor.font_cache: the fonts loaded so far, by size

vars == <<env, inputDir, configFile, outputDir, run, pc, cmd, loc, budget,
          exitCode, hist, fnArg, fnRes, fnPc, font_cache>>

pipelineVars == <<env, inputDir, configFile, outputDir, run, pc, cmd, loc,
                  budget, exitCode, hist>>

fnVars == <<fnArg, fnRes, fnPc, font_cache>>

NoConfig == [exists |-> FALSE]

NoLoc ==
    [config          |-> NoConfig,
     pidx            |-> 0,
     image_files     |-> << >>,
     ranked_results  |-> << >>,
     file_map        |-> << >>,
     temp_mappings   |-> << >>,
     i               |-> 0,
     screenshots     |-> << >>,
     gs              |-> 0,
     gz              |-> 0,
     total_generated |-> 0]

NoCmd == [entry |-> "none", preserve_names |-> FALSE, regenerate_files |-> {}]

\* History of the running invocation.  ranked: the results of its ranking
\* requests; requests: the requests sent to the oracle; aIn, aCfg, aOut: the
\* files when analyze() was entered; saved: analyze() wrote the config; gIn,
\* gCfg, gOut: the files when generate() was entered; written, removed: the
\* output files written and the directories removed by generate(); attempted:
\* the (screenshot, size) pairs whose try block was entered; total:
\* total_generated;
\* phase: the entry point running; last: the last completed full generate();
\* prev: what last was when generate() was entered.
NoLast == [valid |-> FALSE]

NoHist ==
    [ranked   |-> << >>,
     requests |-> 0,
     aIn      |-> << >>,
     aCfg     |-> NoConfig,
     aOut     |-> EmptyOutput,
     saved    |-> FALSE,
     gIn      |-> << >>,
     gCfg     |-> NoConfig,
     gOut     |-> EmptyOutput,
     written  |-> {},
     removed  |-> {},
     attempted |-> 0,
     total    |-> 0,
     phase    |-> "none",
     last     |-> NoLast,
     prev     |-> NoLast]

\* A config an earlier analyze() wrote for a.png and b.png, ranked 1 and 2.
C_old ==
    [exists       |-> TRUE,
     version      |-> "1.0.0",
     generated    |-> 0,
     auto_ordered |-> TRUE,
     platforms    |-> << PlatformConfig("android",
                            << ScreenshotConfig(OracleRecord(N_a_png, 1, T_Map)),
                               ScreenshotConfig(OracleRecord(N_b_png, 2, T_Map)) >>) >>]

\* The environment: ANTHROPIC_API_KEY set, Input/ present.
EnvOk      == [api_key |-> TRUE, input_exists |-> TRUE]
EnvNoKey   == [api_key |-> FALSE, input_exists |-> TRUE]
EnvNoInput == [api_key |-> TRUE, input_exists |-> FALSE]

\* A behaviour is one invocation with up to MaxRecords oracle records, or up to
\* MaxRuns invocations, one of them an analysis, with one oracle record; or one
\* invocation where the credential or Input/ is missing, or where a configured
\* source file has been removed since the analysis.
Scenario(tree, out, cfg, e, runs, analyses, records) ==
    [tree |-> tree, out |-> out, cfg |-> cfg, env |-> e, runs |-> runs,
     analyses |-> analyses, records |-> records]

Scenarios ==
    {Scenario(t, EmptyOutput, NoConfig, EnvOk, 1, 1, MaxRecords) : t \in InputTrees}
    \cup
    {Scenario(sc[1], sc[2], NoConfig, EnvOk, MaxRuns, 1, 1)
        : sc \in {<<T_ab, StaleOutput>>, <<T_stem, EmptyOutput>>,
                  <<T_two, EmptyOutput>>}}
    \cup
    {Scenario(T_ab, StaleOutput, C_old, EnvNoKey, 1, 1, 1),
     Scenario(T_none, StaleOutput, C_old, EnvNoInput, 1, 1, 1),
     Scenario(T_gone, EmptyOutput, C_old, EnvOk, 1, 0, 0),
     Scenario(T_two, EmptyOutput, C_old, EnvOk, 1, 1, 1)}

PipelineInit ==
    /\ \E sc \in Scenarios :
          /\ env = sc.env
          /\ inputDir = sc.tree
          /\ outputDir = sc.out
          /\ configFile = sc.cfg
          /\ budget = [runs |-> sc.runs, analyses |-> sc.analyses,
                       records |-> sc.records]
    /\ run = 0
    /\ pc = "idle"
    /\ cmd = NoCmd
    /\ loc = NoLoc
    /\ exitCode = 0
    /\ hist = NoHist

FnOff == fnArg = << >> /\ fnRes = << >> /\ fnPc = "off" /\ font_cache = {}

Init == PipelineInit /\ FnOff

(***************************************************************************)
(* main()                                                                  *)
(***************************************************************************)

\* The 'platform/filename' strings of the configured screenshots.
ConfigEntries(cfg) ==
    IF ~cfg.exists THEN {}
    ELSE UNION { { <<cfg.platforms[k].key, cfg.platforms[k].screenshots[j].file>>
                   : j \in 1..Len(cfg.platforms[k].screenshots) }
                 : k \in 1..Len(cfg.platforms) }

\* The values of --regenerate tried: one or two names, configured or not.
RegenerateLists(cfg) ==
    LET U == ConfigEntries(cfg) \cup {<<"android", N_z_png>>}
    IN  {L \in SUBSET U : Cardinality(L) \in {1, 2}}

\* The entry point main() calls for the parsed arguments, "usage" for none.
Dispatch(args) ==
    IF ~(args.analyze \/ args.generate \/ args.auto \/ args.regenerate # {})
    THEN "usage"
    ELSE IF args.auto THEN "auto"
    ELSE IF args.regenerate # {} THEN "regenerate"
    ELSE IF args.analyze THEN "analyze"
    ELSE "generate"

Exit(code) ==
    /\ pc' = "done"
    /\ exitCode' = code
    /\ loc' = NoLoc

\* main(): parse the arguments, print the usage or call the entry point.
Main ==
    /\ pc \in {"idle", "done"}
    /\ budget.runs > 0
    /\ \E a \in BOOLEAN, g \in BOOLEAN, au \in BOOLEAN, pn \in BOOLEAN,
          rg \in {{}} \cup RegenerateLists(configFile) :
          LET args  == [analyze |-> a, generate |-> g, auto |-> au,
                        regenerate |-> rg, preserve_names |-> pn]
              entry == Dispatch(args)
          IN  /\ entry \in {"auto", "analyze"} => budget.analyses > 0
              /\ budget' = [budget EXCEPT
                              !.runs = @ - 1,
                              !.analyses = IF entry \in {"auto", "analyze"}
                                           THEN @ - 1 ELSE @]
              /\ run' = run + 1
              /\ hist' = [NoHist EXCEPT !.last = hist.last]
              /\ IF entry = "usage"
                 THEN /\ Exit(1)
                      /\ cmd' = NoCmd
                 ELSE /\ cmd' = [entry |-> entry,
                                 preserve_names |->
                                     (pn /\ entry \in {"auto", "analyze"}),
                                 regenerate_files |->
                                     IF entry = "regenerate" THEN rg ELSE {}]
                      /\ pc' = IF entry \in {"auto", "analyze"}
                               THEN "a_start" ELSE "g_start"
                      /\ exitCode' = 0
                      /\ loc' = NoLoc
    /\ UNCHANGED <<env, inputDir, configFile, outputDir, fnVars>>

(***************************************************************************)
(* ScreenshotPipeline.analyze                                              *)
(***************************************************************************)

IsImage(n) == suffix(n) \in IMAGE_EXTENSIONS

\* sorted([f for f in platform_path.iterdir() if f.is_file() and
\*         f.suffix in IMAGE_EXTENSIONS])
ScanImages(files) == SetToSortedSeq({n \in NamesOf(files) : IsImage(n)})

\* Lines 84-117: the credential, the input directory, the empty config.
AnalyzeStart ==
    /\ pc = "a_start"
    /\ hist' = [hist EXCEPT !.aIn = inputDir, !.aCfg = configFile,
                            !.aOut = outputDir, !.phase = "analyze"]
    /\ IF ~env.api_key \/ ~env.input_exists
       THEN Exit(1)
       ELSE /\ loc' = [NoLoc EXCEPT
                         !.config = [exists       |-> TRUE,
                                     version      |-> "1.0.0",
                                     generated    |-> run,
                                     auto_ordered |-> ~cmd.preserve_names,
                                     platforms    |-> << >>],
                         !.pidx = 1]
            /\ pc' = "a_platform"
            /\ UNCHANGED exitCode
    /\ UNCHANGED <<env, inputDir, configFile, outputDir, run, cmd, budget, fnVars>>

\* Mutant: the platform loop takes the ranking branch whatever preserve_names is.
AnalyzeScanAlwaysRank ==
    /\ pc = "a_platform"
    /\ IF loc.pidx > Len(Platforms)
       THEN /\ pc' = "a_save"
            /\ UNCHANGED loc
       ELSE LET d     == inputDir[Platforms[loc.pidx]]
                image_files == ScanImages(d.files)
            IN  IF ~d.exists \/ image_files = << >>
                THEN /\ loc' = [loc EXCEPT !.pidx = @ + 1]
                     /\ UNCHANGED pc
                ELSE /\ loc' = [loc EXCEPT !.image_files = image_files,
                                           !.screenshots = << >>,
                                           !.temp_mappings = << >>,
                                           !.i = 1]
                     /\ pc' = "a_rank"
    /\ UNCHANGED <<env, inputDir, configFile, outputDir, run, cmd, budget,
                   exitCode, hist, fnVars>>

\* Lines 119-142: the head of the platform loop.
AnalyzeScan ==
    /\ pc = "a_platform"
    /\ IF loc.pidx > Len(Platforms)
       THEN /\ pc' = "a_save"
            /\ UNCHANGED loc
       ELSE LET d     == inputDir[Platforms[loc.pidx]]
                image_files == ScanImages(d.files)
            IN  IF ~d.exists \/ image_files = << >>
                THEN /\ loc' = [loc EXCEPT !.pidx = @ + 1]
                     /\ UNCHANGED pc
                ELSE /\ loc' = [loc EXCEPT !.image_files = image_files,
                                           !.screenshots = << >>,
                                           !.temp_mappings = << >>,
                                           !.i = 1]
                     /\ pc' = IF cmd.preserve_names THEN "a_single" ELSE "a_rank"
    /\ UNCHANGED <<env, inputDir, configFile, outputDir, run, cmd, budget,
                   exitCode, hist, fnVars>>

\* Lines 166-173: one ranking request for the platform's images.
AnalyzeRank ==
    /\ pc = "a_rank"
    /\ \E answer \in RankAnswers(loc.image_files, budget.records) :
          LET results == analyze_and_rank_screenshots(answer, loc.image_files)
          IN  /\ loc' = [loc EXCEPT !.ranked_results = results,
                                    !.file_map = loc.image_files]
              /\ budget' = [budget EXCEPT !.records = @ - Len(answer.recs)]
              /\ hist' = [hist EXCEPT
                            !.requests = @ + 1,
                            !.ranked = Append(@,
                                [platform    |-> Platforms[loc.pidx],
                                 image_files |-> loc.image_files,
                                 kind        |-> answer.kind,
                                 shape       |-> answer.shape,
                                 results     |-> results])]
    /\ pc' = "a_pass1"
    /\ UNCHANGED <<env, inputDir, configFile, outputDir, run, cmd, exitCode, fnVars>>

\* Lines 177-211: one iteration of the first pass.
AnalyzeFirstPass ==
    /\ pc = "a_pass1"
    /\ IF loc.i > Len(loc.ranked_results)
       THEN /\ loc' = [loc EXCEPT !.i = 1]
            /\ pc' = "a_pass2"
            /\ UNCHANGED <<inputDir, exitCode>>
       ELSE LET result   == loc.ranked_results[loc.i]
                p        == Platforms[loc.pidx]
                matched  == MatchFile(loc.file_map, result.original_name)
                tmp      == temp_name(result.rank, matched)
            IN  IF matched = << >>
                THEN /\ loc' = [loc EXCEPT !.i = @ + 1]
                     /\ UNCHANGED <<inputDir, pc, exitCode>>
                ELSE IF ~HasFile(inputDir[p].files, matched)
                THEN /\ Exit(1)
                     /\ UNCHANGED inputDir
                ELSE /\ inputDir' = [inputDir EXCEPT
                                       ![p].files = move(@, matched, tmp)]
                     /\ loc' = [loc EXCEPT
                                  !.temp_mappings = Append(@,
                                      [result |-> result, temp_path |-> tmp,
                                       actual_name |-> matched]),
                                  !.file_map = Without(@, matched),
                                  !.i = @ + 1]
                     /\ UNCHANGED <<pc, exitCode>>
    /\ UNCHANGED <<env, configFile, outputDir, run, cmd, budget, hist, fnVars>>

\* Lines 214-222: one iteration of the second pass.
AnalyzeSecondPass ==
    /\ pc = "a_pass2"
    /\ IF loc.i > Len(loc.temp_mappings)
       THEN /\ pc' = "a_build"
            /\ UNCHANGED <<inputDir, loc, exitCode>>
       ELSE LET m   == loc.temp_mappings[loc.i]
                p   == Platforms[loc.pidx]
                new == new_name(m.result.rank, m.result.title)
            IN  IF ~HasFile(inputDir[p].files, m.temp_path)
                THEN /\ Exit(1)
                     /\ UNCHANGED inputDir
                ELSE /\ inputDir' = [inputDir EXCEPT
                                       ![p].files = move(@, m.temp_path, new)]
                     /\ loc' = [loc EXCEPT !.i = @ + 1]
                     /\ UNCHANGED <<pc, exitCode>>
    /\ UNCHANGED <<env, configFile, outputDir, run, cmd, budget, hist, fnVars>>

\* An analyze() that writes the config document after each platform.
AnalyzeBuildSaving ==
    /\ pc = "a_build"
    /\ IF \E k \in 1..Len(loc.temp_mappings) :
             ~(ConfigKeys \subseteq DOMAIN loc.temp_mappings[k].result)
       THEN Exit(1) /\ UNCHANGED configFile
       ELSE /\ loc' = [loc EXCEPT
                         !.config.platforms = Append(@,
                             PlatformConfig(Platforms[loc.pidx],
                                 [k \in 1..Len(loc.temp_mappings) |->
                                     ScreenshotConfig(loc.temp_mappings[k].result)])),
                         !.pidx = @ + 1]
            /\ configFile' = loc'.config
            /\ pc' = "a_platform"
            /\ UNCHANGED exitCode
    /\ UNCHANGED <<env, inputDir, outputDir, run, cmd, budget, hist, fnVars>>

\* Lines 224-249: the platform's entries, in the order of temp_mappings.
AnalyzeBuild ==
    /\ pc = "a_build"
    /\ IF \E k \in 1..Len(loc.temp_mappings) :
             ~(ConfigKeys \subseteq DOMAIN loc.temp_mappings[k].result)
       THEN Exit(1)
       ELSE /\ loc' = [loc EXCEPT
                         !.config.platforms = Append(@,
                             PlatformConfig(Platforms[loc.pidx],
                                 [k \in 1..Len(loc.temp_mappings) |->
                                     ScreenshotConfig(loc.temp_mappings[k].result)])),
                         !.pidx = @ + 1]
            /\ pc' = "a_platform"
            /\ UNCHANGED exitCode
    /\ UNCHANGED <<env, inputDir, configFile, outputDir, run, cmd, budget,
                   hist, fnVars>>

\* Lines 144-163 and 245-249: preserve_names, one image per step; after the
\* last image the platform's entries are stored.
AnalyzeSingle ==
    /\ pc = "a_single"
    /\ IF loc.i > Len(loc.image_files)
       THEN /\ loc' = [loc EXCEPT
                         !.config.platforms = Append(@,
                             PlatformConfig(Platforms[loc.pidx], loc.screenshots)),
                         !.pidx = @ + 1]
            /\ pc' = "a_platform"
            /\ UNCHANGED <<budget, exitCode, hist>>
       ELSE \E answer \in SingleAnswers(budget.records) :
              LET analysis == analyze_screenshot(answer)
                  n        == loc.image_files[loc.i]
              IN  /\ budget' = [budget EXCEPT !.records =
                                    IF answer.kind = "object" THEN @ - 1 ELSE @]
                  /\ hist' = [hist EXCEPT !.requests = @ + 1]
                  /\ IF ~({"title", "subtitle", "detected_content", "confidence"}
                            \subseteq DOMAIN analysis)
                     THEN Exit(1)
                     ELSE /\ loc' = [loc EXCEPT
                                       !.screenshots = Append(@,
                                           [file             |-> n,
                                            original_name    |-> n,
                                            title            |-> analysis.title,
                                            subtitle         |-> analysis.subtitle,
                                            detected_content |-> analysis.detected_content,
                                            confidence       |-> analysis.confidence]),
                                       !.i = @ + 1]
                          /\ UNCHANGED <<pc, exitCode>>
    /\ UNCHANGED <<env, inputDir, configFile, outputDir, run, cmd, fnVars>>

\* Lines 251-253: json.dump(config); auto() goes on to generate().
AnalyzeSave ==
    /\ pc = "a_save"
    /\ configFile' = loc.config
    /\ hist' = [hist EXCEPT !.saved = TRUE]
    /\ IF cmd.entry = "auto"
       THEN /\ pc' = "g_start"
            /\ loc' = NoLoc
            /\ UNCHANGED exitCode
       ELSE Exit(0)
    /\ UNCHANGED <<env, inputDir, outputDir, run, cmd, budget, fnVars>>

(***************************************************************************)
(* ScreenshotPipeline.generate                                             *)
(***************************************************************************)

\* ImageProcessor.create_screenshot_with_text followed by img.save: the image
\* is determined by the source's content, the texts, the size and the theme.
OutputImage(content, title, subtitle, size, theme) ==
    [src |-> content.id, title |-> title, subtitle |-> subtitle,
     size |-> size, theme |-> theme]

\* Lines 454-494: what RESULTS.md shows of one screenshot ('-' for a missing
\* rank or reason is the empty sequence here).
ManifestRow(ss) ==
    [rank     |-> IF "rank" \in DOMAIN ss THEN <<ss.rank>> ELSE << >>,
     file     |-> ss.file,
     title    |-> ss.title,
     subtitle |-> ss.subtitle,
     reason   |-> IF "rank_reason" \in DOMAIN ss THEN <<ss.rank_reason>> ELSE << >>,
     hero     |-> IF "hero_shot" \in DOMAIN ss THEN ss.hero_shot ELSE FALSE,
     detected |-> ss.detected_content]

\* Mutant: the report is stamped with the time of the run, not of the analysis.
ManifestStampedNow(config, pcfg, now) ==
    [platform     |-> pcfg.key,
     generated    |-> now,
     auto_ordered |-> config.auto_ordered,
     rows         |-> [j \in 1..Len(pcfg.screenshots) |->
                          ManifestRow(pcfg.screenshots[j])]]

\* Lines 440-498: the content of one platform's RESULTS.md.
Manifest(config, pcfg, now) ==
    [platform     |-> pcfg.key,
     generated    |-> config.generated,
     auto_ordered |-> config.auto_ordered,
     rows         |-> [j \in 1..Len(pcfg.screenshots) |->
                          ManifestRow(pcfg.screenshots[j])]]

\* Mutant: the Android subtree is left out of the cleaning.
PlatformsToCleanIosOnly(config) ==
    LET keys == [k \in 1..Len(config.platforms) |-> config.platforms[k].key]
        ios  == SelectSeq(keys, LAMBDA x : x \in {"ios_iphone", "ios_ipad"})
    IN  [k \in 1..Len(ios) |-> CleanPath(ios[k])]

\* Lines 311-321: platforms_to_clean
PlatformsToClean(config) ==
    LET keys == [k \in 1..Len(config.platforms) |-> config.platforms[k].key]
    IN  [k \in 1..Len(SelectSeq(keys, LAMBDA x : CleanPath(x) # << >>)) |->
            CleanPath(SelectSeq(keys, LAMBDA x : CleanPath(x) # << >>)[k])]

RECURSIVE CleanEach(_, _)
\* Lines 323-326: for clean_path in platforms_to_clean: rmtree if it exists
CleanEach(out, paths) ==
    IF paths = << >> THEN out
    ELSE CleanEach(IF Head(paths) \in out.dirs THEN rmtree(out, Head(paths))
                   ELSE out,
                   Tail(paths))

RECURSIVE WriteManifests(_, _, _, _)
\* _generate_results_markdown: one RESULTS.md per known platform of the config
WriteManifests(out, config, k, now) ==
    IF k > Len(config.platforms) THEN out
    ELSE LET pcfg == config.platforms[k]
             dir  == CleanPath(pcfg.key)
         IN  WriteManifests(
                 IF dir = << >> THEN out
                 ELSE [dirs  |-> mkdir(out.dirs, dir),
                       files |-> WriteFile(out.files, dir, N_RESULTS_md,
                                           Manifest(config, pcfg, now))],
                 config, k + 1, now)

\* The RESULTS.md files _generate_results_markdown writes for a config.
ManifestFiles(config) ==
    {[dir |-> CleanPath(config.platforms[k].key), name |-> N_RESULTS_md]
        : k \in {j \in 1..Len(config.platforms) :
                    CleanPath(config.platforms[j].key) # << >>}}

\* Mutant: Output/ is made before the config is looked for.
GenerateStartMakingOutput ==
    /\ pc = "g_start"
    /\ hist' = [hist EXCEPT !.gIn = inputDir, !.gCfg = configFile,
                            !.gOut = outputDir, !.phase = "generate",
                            !.prev = hist.last]
    /\ outputDir' = [outputDir EXCEPT !.dirs = mkdir(@, << >>)]
    /\ IF ~configFile.exists
       THEN Exit(1)
       ELSE /\ loc' = [NoLoc EXCEPT !.config = configFile, !.pidx = 1, !.gs = 1]
            /\ pc' = "g_clean"
            /\ UNCHANGED exitCode
    /\ UNCHANGED <<env, inputDir, configFile, run, cmd, budget, fnVars>>

\* Lines 290-307: the config document is read.
GenerateStart ==
    /\ pc = "g_start"
    /\ hist' = [hist EXCEPT !.gIn = inputDir, !.gCfg = configFile,
                            !.gOut = outputDir, !.phase = "generate",
                            !.prev = hist.last]
    /\ IF ~configFile.exists
       THEN Exit(1)
       ELSE /\ loc' = [NoLoc EXCEPT !.config = configFile, !.pidx = 1, !.gs = 1]
            /\ pc' = "g_clean"
            /\ UNCHANGED exitCode
    /\ UNCHANGED <<env, inputDir, configFile, outputDir, run, cmd, budget, fnVars>>

\* Lines 309-331: without a regenerate list, every configured platform's
\* output directory is removed.
GenerateClean ==
    /\ pc = "g_clean"
    /\ IF cmd.regenerate_files = {}
       THEN LET paths == PlatformsToClean(loc.config)
            IN  /\ outputDir' = CleanEach(outputDir, paths)
                /\ hist' = [hist EXCEPT !.removed =
                               {paths[k] : k \in 1..Len(paths)} \cap outputDir.dirs]
       ELSE UNCHANGED <<outputDir, hist>>
    /\ pc' = "g_shot"
    /\ UNCHANGED <<env, inputDir, configFile, run, cmd, loc, budget, exitCode, fnVars>>

\* Lines 333-376: the platform loop and the head of the screenshot loop.
GenerateShot ==
    /\ pc = "g_shot"
    /\ IF loc.pidx > Len(loc.config.platforms)
       THEN /\ pc' = "g_manifest"
            /\ UNCHANGED loc
       ELSE LET pcfg == loc.config.platforms[loc.pidx]
            IN  IF loc.gs > Len(pcfg.screenshots)
                THEN /\ loc' = [loc EXCEPT !.pidx = @ + 1, !.gs = 1]
                     /\ UNCHANGED pc
                ELSE LET filename == pcfg.screenshots[loc.gs].file
                     IN  IF \/ /\ cmd.regenerate_files # {}
                               /\ <<pcfg.key, filename>> \notin cmd.regenerate_files
                            \/ ~HasFile(inputDir[pcfg.key].files, filename)
                            \/ SIZES(pcfg.key) = << >>
                         THEN /\ loc' = [loc EXCEPT !.gs = @ + 1]
                              /\ UNCHANGED pc
                         ELSE /\ loc' = [loc EXCEPT !.gz = 1]
                              /\ pc' = "g_size"
    /\ UNCHANGED <<env, inputDir, configFile, outputDir, run, cmd, budget,
                   exitCode, hist, fnVars>>

\* Mutant: a size that fails ends the run.
SizeFailedAborting(output_path, last) ==
    /\ outputDir' = [outputDir EXCEPT !.dirs = mkdir(@, output_path)]
    /\ hist' = [hist EXCEPT !.attempted = @ + 1]
    /\ Exit(1)

\* Lines 408-409: except Exception: the failure is logged and the loop of the
\* sizes goes on; the directory of the size has been made.
SizeFailed(output_path, last) ==
    /\ outputDir' = [outputDir EXCEPT !.dirs = mkdir(@, output_path)]
    /\ hist' = [hist EXCEPT !.attempted = @ + 1]
    /\ loc' = [loc EXCEPT
                 !.gz = IF last THEN 1 ELSE @ + 1,
                 !.gs = IF last THEN @ + 1 ELSE @]
    /\ pc' = IF last THEN "g_shot" ELSE "g_size"
    /\ UNCHANGED exitCode

\* Lines 379-409: one size of one screenshot; an exception of the processor
\* or of save is caught and the loop goes on.
GenerateSize ==
    /\ pc = "g_size"
    /\ LET pcfg       == loc.config.platforms[loc.pidx]
           screenshot == pcfg.screenshots[loc.gs]
           size       == SIZES(pcfg.key)[loc.gz]
           output_path == OutputPath(pcfg.key, SIZE_LABELS(size))
           output_file == stem(screenshot.file) \o DotPng
           source     == ContentOf(inputDir[pcfg.key].files, screenshot.file)
           last       == loc.gz = Len(SIZES(pcfg.key))
       IN  IF source.readable
           THEN /\ outputDir' =
                     [dirs  |-> mkdir(outputDir.dirs, output_path),
                      files |-> WriteFile(outputDir.files, output_path,
                                    output_file,
                                    OutputImage(source, screenshot.title,
                                        screenshot.subtitle, size, pcfg.theme))]
                /\ hist' = [hist EXCEPT
                              !.written = @ \cup {[dir |-> output_path,
                                                   name |-> output_file]},
                              !.attempted = @ + 1,
                              !.total = @ + 1]
                /\ loc' = [loc EXCEPT
                             !.total_generated = @ + 1,
                             !.gz = IF last THEN 1 ELSE @ + 1,
                             !.gs = IF last THEN @ + 1 ELSE @]
                /\ pc' = IF last THEN "g_shot" ELSE "g_size"
                /\ UNCHANGED exitCode
           ELSE SizeFailed(output_path, last)
    /\ UNCHANGED <<env, inputDir, configFile, run, cmd, budget, fnVars>>

\* What completes generate(): the output tree with the reports, and the history.
GenerateFinish ==
    /\ outputDir' = WriteManifests(outputDir, loc.config, 1, run)
    /\ hist' = [hist EXCEPT
                  !.written = @ \cup ManifestFiles(loc.config),
                  !.last = IF cmd.regenerate_files = {}
                           THEN [valid |-> TRUE, run |-> run, cfg |-> configFile',
                                 inp |-> inputDir, out |-> outputDir']
                           ELSE NoLast]
    /\ Exit(0)
    /\ UNCHANGED <<env, inputDir, run, cmd, budget, fnVars>>

\* Mutant: generate() saves the config it read, stamped with the time of the run.
GenerateManifestSaving ==
    /\ pc = "g_manifest"
    /\ configFile' = [loc.config EXCEPT !.generated = run]
    /\ GenerateFinish

\* Lines 413-420: the reports are written and generate() returns.
GenerateManifest ==
    /\ pc = "g_manifest"
    /\ UNCHANGED configFile
    /\ GenerateFinish

(***************************************************************************)
(* The pipeline                                                            *)
(***************************************************************************)

Next ==
    \/ Main
    \/ AnalyzeStart
    \/ AnalyzeScan
    \/ AnalyzeRank
    \/ AnalyzeFirstPass
    \/ AnalyzeSecondPass
    \/ AnalyzeBuild
    \/ AnalyzeSingle
    \/ AnalyzeSave
    \/ GenerateStart
    \/ GenerateClean
    \/ GenerateShot
    \/ GenerateSize
    \/ GenerateManifest

Spec == Init /\ [][Next]_vars

\* The pipeline started on a directory of an earlier run, whose two images
\* already carry rank-prefixed names.
SwapInit ==
    /\ env = EnvOk
    /\ inputDir = T_swap
    /\ outputDir = EmptyOutput
    /\ configFile = NoConfig
    /\ budget = [runs |-> 1, analyses |-> 1, records |-> MaxRecords]
    /\ run = 0
    /\ pc = "idle"
    /\ cmd = NoCmd
    /\ loc = NoLoc
    /\ exitCode = 0
    /\ hist = NoHist
    /\ FnOff

SpecSwap == SwapInit /\ [][Next]_vars

(***************************************************************************)
(* The fallback of analyze_and_rank_screenshots on its own: the function   *)
(* is handed a list of distinct paths in any order and the request fails.  *)
(***************************************************************************)

FallbackNames == {N_a_png, N_b_png, N_c_png, N_ab_nb, N_01_Map}

PathLists ==
    UNION { {l \in [1..n -> FallbackNames] :
                \A i \in 1..n, j \in 1..n : l[i] = l[j] => i = j}
            : n \in 0..MaxPaths }

\* The answers the try block does not survive.
Rejected(answer) ==
    \/ answer.kind # "list"
    \/ \E i \in 1..Len(answer.recs) : ~(LoggedKeys \subseteq DOMAIN answer.recs[i])

PipelineIdle ==
    /\ env = EnvOk
    /\ inputDir = T_ab
    /\ outputDir = EmptyOutput
    /\ budget = [runs |-> 0, analyses |-> 0, records |-> 0]
    /\ configFile = NoConfig
    /\ run = 0
    /\ pc = "idle"
    /\ cmd = NoCmd
    /\ loc = NoLoc
    /\ exitCode = 0
    /\ hist = NoHist

FallbackInit ==
    /\ PipelineIdle
    /\ fnArg \in PathLists
    /\ fnRes = << >>
    /\ fnPc = "ready"
    /\ font_cache = {}

\* One call of analyze_and_rank_screenshots whose request fails.
RankWithFailure ==
    /\ fnPc = "ready"
    /\ \E answer \in RankAnswers(fnArg, 1) :
          /\ Rejected(answer)
          /\ fnRes' = analyze_and_rank_screenshots(answer, fnArg)
    /\ fnPc' = "done"
    /\ UNCHANGED <<fnArg, font_cache, pipelineVars>>

FallbackNext == RankWithFailure

SpecFallback == FallbackInit /\ [][FallbackNext]_vars

(***************************************************************************)
(* vision_analyzer.py: one call of the analyzer, request by request        *)
(***************************************************************************)

\* The calls: a ranking of one or more images, or the analysis of one image.
OracleCalls ==
    {[method |-> "rank", paths |-> l] : l \in PathLists \ {<< >>}}
    \cup {[method |-> "single", paths |-> <<n>>] : n \in FallbackNames}

\* The answers the try block of the called method does not survive.
Failed(call, answer) ==
    IF call.method = "rank"
    THEN Rejected(answer)
    ELSE answer.kind # "object" \/ ~({"title", "subtitle"} \subseteq DOMAIN answer.obj)

\* An except branch that sends the request once more before it gives up.
AfterAnswerRetry(failed, requests) ==
    IF failed /\ requests < 2 THEN "call" ELSE "returned"

\* Where the method stands after the try block or the except branch: both
\* end in a return.
AfterAnswer(failed, requests) == "returned"

NoOracle == [requests |-> 0, answer |-> << >>, result |-> << >>]

OracleInit ==
    /\ PipelineIdle
    /\ fnArg \in OracleCalls
    /\ fnRes = NoOracle
    /\ fnPc = "call"
    /\ font_cache = {}

\* self.client.messages.create(...): one request, and what comes back.
OracleCreate ==
    /\ fnPc = "call"
    /\ \E answer \in IF fnArg.method = "rank"
                      THEN RankAnswers(fnArg.paths, 1)
                      ELSE SingleAnswers(1) :
          fnRes' = [fnRes EXCEPT !.requests = @ + 1, !.answer = answer]
    /\ fnPc' = "answered"
    /\ UNCHANGED <<fnArg, font_cache, pipelineVars>>

\* The rest of the try block, or the except branch with the fallback.
OracleFinish ==
    /\ fnPc = "answered"
    /\ fnRes' = [fnRes EXCEPT !.result =
                    IF fnArg.method = "rank"
                    THEN analyze_and_rank_screenshots(fnRes.answer, fnArg.paths)
                    ELSE analyze_screenshot(fnRes.answer)]
    /\ fnPc' = AfterAnswer(Failed(fnArg, fnRes.answer), fnRes.requests)
    /\ UNCHANGED <<fnArg, font_cache, pipelineVars>>

OracleNext ==
    \/ OracleCreate
    \/ OracleFinish

SpecOracle == OracleInit /\ [][OracleNext]_vars

(***************************************************************************)
(* image_processor.py: the text fitter and the compositor                  *)
(***************************************************************************)

\* int(x * f) for the decimal fraction f = num / den.
IntTimes(x, num, den) == (x * num) \div den

AllSizes == UNION {{SIZES(p)[i] : i \in 1..Len(SIZES(p))} : p \in PlatformSet}

\* A text, by the width of its single line in hundredths of an em.
Texts == {[em |-> 300], [em |-> 1200], [em |-> 3000]}

\* Whether some entry of FONT_PATHS can be loaded on this machine.
FontKinds == {"truetype", "default"}

truetype(size) == [kind |-> "truetype", size |-> size]

load_default == [kind |-> "default", size |-> 10]

LoadFont(fonts, size) == IF fonts = "truetype" THEN truetype(size) ELSE load_default

CachedSizes(cache) == {e.size : e \in cache}

\* A cache that is asked for any font at all instead of the font of the size.
get_font_any_size(cache, fonts, size) ==
    IF cache # {}
    THEN [font |-> (CHOOSE e \in cache : \A o \in cache : o.size <= e.size).font,
          cache |-> cache]
    ELSE [font |-> LoadFont(fonts, size),
          cache |-> {[size |-> size, font |-> LoadFont(fonts, size)]}]

\* get_font: the font and the cache after the call.
get_font(cache, fonts, size) ==
    IF size \in CachedSizes(cache)
    THEN [font |-> (CHOOSE e \in cache : e.size = size).font, cache |-> cache]
    ELSE [font |-> LoadFont(fonts, size),
          cache |-> cache \cup {[size |-> size, font |-> LoadFont(fonts, size)]}]

\* ImageDraw.textbbox((0, 0), text, font): extent of one line of text.
textbbox(text, font) ==
    [width  |-> (text.em * font.size) \div 100,
     height |-> (font.size * 3) \div 4]

\* A loop that never makes the size smaller.
StepDownNothing(size) == size

StepDown(size) == size - 2

\* Source screenshots: Image.open gives (width, height), or raises.
Unreadable == << >>

Shots == {<<1080, 1920>>, <<1179, 2556>>, <<1920, 1080>>, <<2048, 2732>>}

\* screenshot_scale, in hundredths: the default 0.95, a half, and the whole.
Scales == {50, 95, 100}

\* A compositor that always takes the fit-to-height branch.
WiderNever(shot, available_width, available_height) == FALSE

\* A compositor that always takes the fit-to-width branch.
WiderAlways(shot, available_width, available_height) == TRUE

\* screenshot_ratio > target_ratio
Wider(shot, available_width, available_height) ==
    shot[1] * available_height > available_width * shot[2]

NoLocals == << >>

ProcessorInit ==
    /\ PipelineIdle
    /\ \E fonts \in FontKinds, target_size \in AllSizes :
          fnArg = [fonts |-> fonts, target_size |-> target_size]
    /\ fnRes = NoLocals
    /\ fnPc = "ready"
    /\ font_cache = {}

\* create_screenshot_with_text up to the call of calculate_optimal_font_size,
\* and that routine up to its first loop.
CreateStart ==
    /\ fnPc = "ready"
    /\ \E title \in Texts, subtitle \in Texts :
          LET canvas_width  == fnArg.target_size[1]
              canvas_height == fnArg.target_size[2]
          IN  fnRes' = [title             |-> title,
                        subtitle          |-> subtitle,
                        max_text_width    |-> IntTimes(canvas_width, 90, 100),
                        title_size        |-> IntTimes(canvas_height, 5, 100),
                        subtitle_size     |-> IntTimes(canvas_height, 3, 100),
                        min_title_size    |-> IntTimes(canvas_height, 25, 1000),
                        min_subtitle_size |-> IntTimes(canvas_height, 2, 100)]
    /\ fnPc' = "title_loop"
    /\ UNCHANGED <<fnArg, font_cache, pipelineVars>>

\* One test of the title loop, and its body when the test passes.
TitleStep ==
    /\ fnPc = "title_loop"
    /\ IF fnRes.title_size > fnRes.min_title_size
       THEN LET got   == get_font(font_cache, fnArg.fonts, fnRes.title_size)
                width == textbbox(fnRes.title, got.font).width
            IN  /\ font_cache' = got.cache
                /\ IF width <= fnRes.max_text_width
                   THEN /\ fnPc' = "subtitle_loop"
                        /\ UNCHANGED fnRes
                   ELSE /\ fnRes' = [fnRes EXCEPT !.title_size = StepDown(@)]
                        /\ UNCHANGED fnPc
       ELSE /\ fnPc' = "subtitle_loop"
            /\ UNCHANGED <<fnRes, font_cache>>
    /\ UNCHANGED <<fnArg, pipelineVars>>

\* One test of the subtitle loop, and its body when the test passes.
SubtitleStep ==
    /\ fnPc = "subtitle_loop"
    /\ IF fnRes.subtitle_size > fnRes.min_subtitle_size
       THEN LET got   == get_font(font_cache, fnArg.fonts, fnRes.subtitle_size)
                width == textbbox(fnRes.subtitle, got.font).width
            IN  /\ font_cache' = got.cache
                /\ IF width <= fnRes.max_text_width
                   THEN /\ fnPc' = "measure"
                        /\ UNCHANGED fnRes
                   ELSE /\ fnRes' = [fnRes EXCEPT !.subtitle_size = StepDown(@)]
                        /\ UNCHANGED fnPc
       ELSE /\ fnPc' = "measure"
            /\ UNCHANGED <<fnRes, font_cache>>
    /\ UNCHANGED <<fnArg, pipelineVars>>

\* The heights, and the return of calculate_optimal_font_size.
Measure ==
    /\ fnPc = "measure"
    /\ LET got_title    == get_font(font_cache, fnArg.fonts, fnRes.title_size)
           got_subtitle == get_font(got_title.cache, fnArg.fonts, fnRes.subtitle_size)
           title_height    == textbbox(fnRes.title, got_title.font).height
           subtitle_height == textbbox(fnRes.subtitle, got_subtitle.font).height
           line_spacing    == IntTimes(title_height, 3, 10)
           total_height    == title_height + line_spacing + subtitle_height
       IN  /\ font_cache' = got_subtitle.cache
           /\ fnRes' = [returned |-> <<fnRes.title_size, fnRes.subtitle_size,
                                       total_height>>] @@ fnRes
    /\ fnPc' = "fitted"
    /\ UNCHANGED <<fnArg, pipelineVars>>

\* The rest of create_screenshot_with_text: the geometry of the pasted
\* screenshot.
Compose ==
    /\ fnPc = "fitted"
    /\ LET canvas_width  == fnArg.target_size[1]
           canvas_height == fnArg.target_size[2]
           got_title    == get_font(font_cache, fnArg.fonts, fnRes.returned[1])
           got_subtitle == get_font(got_title.cache, fnArg.fonts, fnRes.returned[2])
           text_area_height == fnRes.returned[3] + IntTimes(canvas_height, 4, 100)
       IN  /\ font_cache' = got_subtitle.cache
           /\ \E shot \in Shots \cup {Unreadable}, scale \in Scales :
                 IF shot = Unreadable
                 THEN /\ fnPc' = "raised"
                      /\ UNCHANGED fnRes
                 ELSE LET available_height ==
                              IntTimes(canvas_height - text_area_height, scale, 100)
                          available_width == IntTimes(canvas_width, scale, 100)
                          wider == Wider(shot, available_width, available_height)
                          new_width ==
                              IF wider THEN available_width
                              ELSE (available_height * shot[1]) \div shot[2]
                          new_height ==
                              IF wider THEN (available_width * shot[2]) \div shot[1]
                              ELSE available_height
                      IN  /\ fnRes' =
                                [shot             |-> shot,
                                 screenshot_scale |-> scale,
                                 text_area_height |-> text_area_height,
                                 available_height |-> available_height,
                                 available_width  |-> available_width,
                                 new_width        |-> new_width,
                                 new_height       |-> new_height,
                                 screenshot_x     |-> (canvas_width - new_width) \div 2,
                                 screenshot_y     |-> text_area_height
                                     + ((canvas_height - text_area_height
                                         - new_height) \div 2)] @@ fnRes
                          /\ fnPc' = "done"
    /\ UNCHANGED <<fnArg, pipelineVars>>

\* The call is over; the processor and its cache stay for the next one.
Return ==
    /\ fnPc \in {"done", "raised"}
    /\ fnPc' = "ready"
    /\ fnRes' = NoLocals
    /\ UNCHANGED <<fnArg, font_cache, pipelineVars>>

ProcessorNext ==
    \/ CreateStart
    \/ TitleStep
    \/ SubtitleStep
    \/ Measure
    \/ Compose
    \/ Return

SpecProcessor == ProcessorInit /\ [][ProcessorNext]_vars

\* The interpreter runs a started call on to its end.
SpecProcessorLive ==
    /\ ProcessorInit
    /\ [][ProcessorNext]_vars
    /\ WF_vars(TitleStep \/ SubtitleStep \/ Measure)

(***************************************************************************)
(* main(): the command line, the dispatch and the exit status              *)
(***************************************************************************)

\* The parsed command lines: every combination of the flags, with --regenerate
\* absent ({}) or given one or two names.
MainArgs ==
    [analyze : BOOLEAN, generate : BOOLEAN, auto : BOOLEAN,
     preserve_names : BOOLEAN, regenerate : {{}} \cup RegenerateLists(C_old)]

\* A dispatch that tests every flag on its own instead of in an if/elif chain.
CalledEveryFlag(args) ==
    (IF args.auto THEN <<"auto">> ELSE << >>)
    \o (IF args.regenerate # {} THEN <<"regenerate">> ELSE << >>)
    \o (IF args.analyze THEN <<"analyze">> ELSE << >>)
    \o (IF args.generate THEN <<"generate">> ELSE << >>)

\* Lines 610-617: the entry points main() calls, in order.
Called(args) ==
    IF Dispatch(args) = "usage" THEN << >> ELSE <<Dispatch(args)>>

\* How the called entry point ends: it returns, raises an Exception, is
\* interrupted, or calls sys.exit(1) itself (lines 89, 101, 294).
Outcomes == {"returns", "Exception", "KeyboardInterrupt", "SystemExit"}

\* An exit status that forgets the failure.
ExitStatusForgetful(outcome) == 0

\* Lines 619-627, and the fall off the end of main().
ExitStatus(outcome) == IF outcome = "returns" THEN 0 ELSE 1

NoMain ==
    [usage |-> FALSE, constructed |-> FALSE, called |-> << >>,
     outcome |-> "none", exit |-> << >>]

MainInit ==
    /\ PipelineIdle
    /\ fnArg \in MainArgs
    /\ fnRes = NoMain
    /\ fnPc = "parsed"
    /\ font_cache = {}

\* Lines 601-607: the usage and exit 1, or the construction of the pipeline.
MainCheck ==
    /\ fnPc = "parsed"
    /\ IF ~(fnArg.analyze \/ fnArg.generate \/ fnArg.auto \/ fnArg.regenerate # {})
       THEN /\ fnRes' = [fnRes EXCEPT !.usage = TRUE, !.exit = <<1>>]
            /\ fnPc' = "exited"
       ELSE /\ fnRes' = [fnRes EXCEPT !.constructed = TRUE]
            /\ fnPc' = "try"
    /\ UNCHANGED <<fnArg, font_cache, pipelineVars>>

\* Lines 609-617: the call of the requested entry point.
MainCall ==
    /\ fnPc = "try"
    /\ fnRes' = [fnRes EXCEPT !.called = Called(fnArg)]
    /\ fnPc' = "running"
    /\ UNCHANGED <<fnArg, font_cache, pipelineVars>>

\* Lines 619-627: the end of the call and the exit status of the process.
MainEnd ==
    /\ fnPc = "running"
    /\ \E outcome \in Outcomes :
          fnRes' = [fnRes EXCEPT !.outcome = outcome,
                                 !.exit = <<ExitStatus(outcome)>>]
    /\ fnPc' = "exited"
    /\ UNCHANGED <<fnArg, font_cache, pipelineVars>>

MainNext ==
    \/ MainCheck
    \/ MainCall
    \/ MainEnd

SpecMain == MainInit /\ [][MainNext]_vars

(***************************************************************************)
(* icons/ios_generator.py: iOSIconGenerator.generate                       *)
(***************************************************************************)

None == "None"

IconDefinition(pt_size, scale, idiom, platform) ==
    [pt_size |-> pt_size, scale |-> scale, idiom |-> idiom, platform |-> platform]

IOS_ICON_DEFINITIONS ==
    << IconDefinition(1024, 1, "universal", "ios"),
       IconDefinition(16, 1, "mac", None),
       IconDefinition(16, 2, "mac", None),
       IconDefinition(32, 1, "mac", None),
       IconDefinition(32, 2, "mac", None),
       IconDefinition(128, 1, "mac", None),
       IconDefinition(128, 2, "mac", None),
       IconDefinition(256, 1, "mac", None),
       IconDefinition(256, 2, "mac", None),
       IconDefinition(512, 1, "mac", None),
       IconDefinition(512, 2, "mac", None) >>

IOS_APPEARANCES ==
    << [mode |-> "", suffix |-> "", json_value |-> None],
       [mode |-> "dark", suffix |-> "_dark", json_value |-> "dark"],
       [mode |-> "tinted", suffix |-> "_tinted", json_value |-> "tinted"] >>

\* The table as shipped, and the tables left when definitions are removed
\* from it (config.py is there to be edited).
IconTables ==
    { [i \in 1..Cardinality(S) |->
          IOS_ICON_DEFINITIONS[CHOOSE k \in S : Cardinality({j \in S : j < k}) = i - 1]]
      : S \in SUBSET (1..Len(IOS_ICON_DEFINITIONS)) }

\* A file name without the appearance suffix.
filename_without_suffix(pt_size, scale, app_info) ==
    IF scale = 1 /\ app_info.mode = ""
    THEN <<pt_size, "x", pt_size, ".png">>
    ELSE <<pt_size, "x", pt_size, "@", scale, "x", ".png">>

\* Lines 146-149: the file name, piece by piece.
filename(pt_size, scale, app_info) ==
    IF scale = 1 /\ app_info.mode = ""
    THEN <<pt_size, "x", pt_size, app_info.suffix, ".png">>
    ELSE <<pt_size, "x", pt_size, "@", scale, "x", app_info.suffix, ".png">>

\* Lines 137-138: the appearances a definition is rendered in.
appearances(definition) ==
    IF definition.idiom = "universal" /\ definition.platform = "ios"
    THEN IOS_APPEARANCES
    ELSE <<IOS_APPEARANCES[1]>>

\* Lines 159-177: the entry of Contents.json for one file.
image_info(definition, app_info) ==
    LET base == [idiom    |-> definition.idiom,
                 size     |-> <<definition.pt_size, "x", definition.pt_size>>,
                 filename |-> filename(definition.pt_size, definition.scale, app_info)]
        with_scale == IF definition.idiom = "mac"
                      THEN [scale |-> <<definition.scale, "x">>] @@ base
                      ELSE base
        with_platform == IF definition.platform # None
                         THEN [platform |-> definition.platform] @@ with_scale
                         ELSE with_scale
    IN  IF app_info.json_value # None
        THEN [appearances |-> <<[appearance |-> "luminosity",
                                 value |-> app_info.json_value]>>] @@ with_platform
        ELSE with_platform

\* The file resize_and_save_no_alpha writes: its name, its side in pixels and
\* the appearance it was rendered in; a file of the same name is replaced.
SaveIcon(files, definition, app_info) ==
    LET name == filename(definition.pt_size, definition.scale, app_info)
    IN  {f \in files : f.name # name}
          \cup {[name |-> name,
                 pixel_size |-> definition.pt_size * definition.scale,
                 mode |-> app_info.mode]}

NoIcons ==
    [d |-> 1, a |-> 1, files |-> {}, images |-> << >>, files_created |-> 0,
     contents_json |-> << >>, returned |-> << >>]

IconInit ==
    /\ PipelineIdle
    /\ fnArg \in IconTables
    /\ fnRes = NoIcons
    /\ fnPc = "icons"
    /\ font_cache = {}

\* Lines 140-179: one appearance of one definition.
IconStep ==
    /\ fnPc = "icons"
    /\ fnRes.d <= Len(fnArg)
    /\ LET definition == fnArg[fnRes.d]
           app_info   == appearances(definition)[fnRes.a]
           last       == fnRes.a = Len(appearances(definition))
       IN  fnRes' = [fnRes EXCEPT
                       !.files = SaveIcon(@, definition, app_info),
                       !.files_created = @ + 1,
                       !.images = Append(@, image_info(definition, app_info)),
                       !.d = IF last THEN @ + 1 ELSE @,
                       !.a = IF last THEN 1 ELSE @ + 1]
    /\ UNCHANGED <<fnArg, fnPc, font_cache, pipelineVars>>

\* Lines 181-189: Contents.json is written and the count returned.
IconFinish ==
    /\ fnPc = "icons"
    /\ fnRes.d > Len(fnArg)
    /\ fnRes' = [fnRes EXCEPT !.contents_json = fnRes.images,
                              !.returned = <<fnRes.files_created>>]
    /\ fnPc' = "done"
    /\ UNCHANGED <<fnArg, font_cache, pipelineVars>>

IconNext ==
    \/ IconStep
    \/ IconFinish

SpecIcons == IconInit /\ [][IconNext]_vars

(***************************************************************************)
(* Properties                                                              *)
(***************************************************************************)

\* C1: when the request fails, analyze_and_rank_screenshots returns one record
\* for every input path, the ranks of the records are exactly 1..N, hero_shot
\* is true for rank 1 and for no other record, and every confidence is 0.0.
FallbackRanksDense ==
    fnPc = "done" =>
        LET N == Len(fnArg)
        IN  /\ Len(fnRes) = N
            /\ \A i \in 1..N :
                  Cardinality({k \in 1..Len(fnRes) :
                                  fnRes[k].original_name = fnArg[i]}) = 1
            /\ {fnRes[k].rank : k \in 1..Len(fnRes)} = 1..N
            /\ \A k \in 1..Len(fnRes) :
                  /\ fnRes[k].hero_shot <=> (fnRes[k].rank = 1)
                  /\ fnRes[k].confidence = 0

FallbackRanksDenseWitness ==
    fnPc = "done" /\ Len(fnArg) = 3 /\ Len(fnRes) = 3

\* C6: the fallback ranks the paths in ascending order of file name whatever
\* the order they were passed in (a.png, b.png, c.png get 1, 2, 3), and every
\* record carries the fixed title and subtitle and the fallback reason.
FallbackAlphabetical ==
    fnPc = "done" =>
        /\ \A k \in 1..Len(fnRes) :
              /\ fnRes[k].rank = k
              /\ fnRes[k].title = T_GetHooked
              /\ fnRes[k].subtitle = "Your intelligent fishing companion"
              /\ fnRes[k].rank_reason = "Fallback alphabetical ordering (API error)"
              /\ \A j \in 1..(k - 1) :
                    StrLess(fnRes[j].original_name, fnRes[k].original_name)
        /\ ({fnArg[i] : i \in 1..Len(fnArg)} = {N_a_png, N_b_png, N_c_png}
               => [k \in 1..Len(fnRes) |-> fnRes[k].original_name]
                      = <<N_a_png, N_b_png, N_c_png>>)

FallbackAlphabeticalWitness ==
    fnPc = "done" /\ fnArg = <<N_c_png, N_a_png, N_b_png>> /\ Len(fnRes) = 3

(***************************************************************************)
(* Properties of analyze()                                                 *)
(***************************************************************************)

ImageNames(d) == {n \in NamesOf(d.files) : IsImage(n)}

Contents(d) == {f.content : f \in {g \in d.files : IsImage(g.name)}}

HasTempPrefix(n) == IsPrefix(TempPrefix, n)

\* '<two digits>_<slug>.png'
IsFinalForm(n) ==
    /\ Len(n) >= 7
    /\ \A i \in {1, 2} : CharCode(n[i]) \in 48..57
    /\ n[3] = "_"
    /\ suffix(n) = DotPng
    /\ \A i \in 4..(Len(n) - 4) : isalnum(n[i]) \/ n[i] = "_"

\* The results of one ranking request are one record for each image of the
\* platform, matched by normalized name, with pairwise distinct ranks.
DistinctRanksFor(r) ==
    LET N == Len(r.image_files)
    IN  /\ Len(r.results) = N
        /\ \A i \in 1..N, j \in 1..N :
              r.results[i].rank = r.results[j].rank => i = j
        /\ \A i \in 1..N :
              Cardinality({k \in 1..N :
                  normalize_whitespace(r.results[k].original_name)
                      = normalize_whitespace(r.image_files[i])})
              = Cardinality({k \in 1..N :
                  normalize_whitespace(r.image_files[k])
                      = normalize_whitespace(r.image_files[i])})

\* C2: when analyze() in auto-order mode has finished and the ranking of a
\* platform gave its N images N distinct ranks, the platform's directory holds
\* exactly N image files, each named '<two-digit rank>_<slug>.png' after one of
\* the records, and no file whose name starts with '_temp_'.
RenameDistinctRanks ==
    hist.saved =>
        \A k \in 1..Len(hist.ranked) :
            LET r == hist.ranked[k]
                d == inputDir[r.platform]
            IN  DistinctRanksFor(r) =>
                    /\ Cardinality(ImageNames(d)) = Len(r.image_files)
                    /\ \A n \in ImageNames(d) :
                          /\ IsFinalForm(n)
                          /\ ~HasTempPrefix(n)
                          /\ \E i \in 1..Len(r.results) :
                                n = Format02d(r.results[i].rank) \o <<"_">>
                                      \o title_slug(r.results[i].title) \o DotPng

\* A ranking by the oracle itself that swaps a file into the name another
\* file had before: 01_Map.png existed, and now holds what was a.png.
RenameDistinctRanksWitness ==
    /\ hist.saved
    /\ \E k \in 1..Len(hist.ranked) :
          /\ hist.ranked[k].kind = "list"
          /\ DistinctRanksFor(hist.ranked[k])
          /\ Len(hist.ranked[k].image_files) = 2
    /\ HasFile(hist.aIn["android"].files, N_01_Map)
    /\ HasFile(inputDir["android"].files, N_01_Map)
    /\ ContentOf(inputDir["android"].files, N_01_Map).id = N_a_png

\* C3 (as stated): whatever list the oracle returns, the renames of analyze()
\* lose no file: a platform directory holds as many images after analyze() as
\* before, and every image it held is still there under some name.
RenamesBijective ==
    (hist.saved /\ ~cmd.preserve_names) =>
        \A p \in PlatformSet :
            /\ Cardinality(ImageNames(inputDir[p]))
                  = Cardinality(ImageNames(hist.aIn[p]))
            /\ Contents(inputDir[p]) = Contents(hist.aIn[p])

\* C4 (as stated): in a config written by analyze() in auto-order mode the
\* ranks of every platform's screenshots are pairwise distinct and are
\* exactly 1..N for its N screenshots.
ConfigRanksDense ==
    (configFile.exists /\ configFile.auto_ordered) =>
        \A k \in 1..Len(configFile.platforms) :
            LET ss == configFile.platforms[k].screenshots
            IN  /\ {ss[j].rank : j \in 1..Len(ss)} = 1..Len(ss)
                /\ \A i \in 1..Len(ss), j \in 1..Len(ss) :
                      ss[i].rank = ss[j].rank => i = j

\* A ranking request failed: the client raised, the text was no JSON, or the
\* records of the array lack a key.
OracleFailed(r) == r.kind # "list" \/ r.shape # "ok"

\* C5 (as stated): when a ranking request of analyze() in auto-order mode
\* fails, analyze() still completes: it does not end in an error, the config is
\* written, and no image is left under a temporary name.
OracleFailureRecovered ==
    (/\ pc = "done"
     /\ cmd.entry \in {"analyze", "auto"}
     /\ \E k \in 1..Len(hist.ranked) : OracleFailed(hist.ranked[k]))
    => /\ exitCode = 0
       /\ hist.saved
       /\ configFile.exists
       /\ \A p \in PlatformSet : \A n \in ImageNames(inputDir[p]) : ~HasTempPrefix(n)

(***************************************************************************)
(* Properties of generate()                                                *)
(***************************************************************************)

GeneratePcs == {"g_start", "g_clean", "g_shot", "g_size", "g_manifest"}

\* C7: no step of generate(), in full or in regenerate mode, changes the
\* config; the config changes only where analyze() saves it.
ConfigWrittenByAnalyzeOnly ==
    [][/\ pc \in GeneratePcs => configFile' = configFile
       /\ configFile' # configFile => pc = "a_save"]_vars

\* generate() has run to its end on a config, in regenerate mode, has written
\* images, and the config is the one it read.
ConfigWrittenByAnalyzeOnlyWitness ==
    /\ pc = "done" /\ exitCode = 0 /\ hist.phase = "generate"
    /\ cmd.regenerate_files # {}
    /\ hist.total > 0
    /\ configFile.exists /\ configFile = hist.gCfg

\* generate() returned normally.
GenerateReturned == pc = "done" /\ exitCode = 0 /\ hist.phase = "generate"

\* C8: a full generate() that directly follows a full generate(), with the
\* same config and the same input files, leaves the output tree, reports
\* included, as the first one left it.
GenerateIdempotent ==
    (/\ GenerateReturned
     /\ cmd.regenerate_files = {}
     /\ hist.prev.valid
     /\ hist.prev.run = run - 1
     /\ hist.prev.cfg = configFile
     /\ hist.prev.inp = inputDir)
    => outputDir = hist.prev.out

GenerateIdempotentWitness ==
    /\ GenerateReturned
    /\ cmd.entry = "generate"
    /\ hist.prev.valid /\ hist.prev.run = run - 1
    /\ hist.prev.cfg = configFile /\ hist.prev.inp = inputDir
    /\ hist.total > 0
    /\ \E f \in outputDir.files : f.name = N_RESULTS_md

\* The output files under the subtree of a platform of the config.
InConfiguredSubtree(config, f) ==
    \E k \in 1..Len(config.platforms) :
        /\ CleanPath(config.platforms[k].key) # << >>
        /\ IsPrefix(CleanPath(config.platforms[k].key), f.dir)

\* C9: after a full generate() every file under the output subtree of a
\* configured platform was written by this run; no file an earlier run left
\* there survives.
FullModeClears ==
    (GenerateReturned /\ cmd.regenerate_files = {}) =>
        \A f \in outputDir.files :
            InConfiguredSubtree(hist.gCfg, f) =>
                /\ [dir |-> f.dir, name |-> f.name] \in hist.written
                /\ "foreign" \notin DOMAIN f.content

FullModeClearsWitness ==
    /\ GenerateReturned /\ cmd.regenerate_files = {}
    /\ hist.total > 0
    /\ \E f \in hist.gOut.files :
          /\ InConfiguredSubtree(hist.gCfg, f)
          /\ f.name = N_z_png
          /\ f \notin outputDir.files

\* The output images of a config entry: one per size of its platform.
EntryOutputs(platform, file) ==
    {[dir  |-> OutputPath(platform, SIZE_LABELS(SIZES(platform)[z])),
      name |-> stem(file) \o DotPng] : z \in 1..Len(SIZES(platform))}

FilesAt(out, o) == {f \in out.files : f.dir = o.dir /\ f.name = o.name}

\* C10 (as stated): generate() in regenerate mode removes no directory and no
\* file of the output tree, writes images only for the entries named in the
\* list, and leaves every output image of an entry not named as it was.
RegenerateLeavesOthers ==
    (GenerateReturned /\ cmd.regenerate_files # {}) =>
        /\ hist.gOut.dirs \subseteq outputDir.dirs
        /\ \A f \in hist.gOut.files : FilesAt(outputDir, f) # {}
        /\ hist.written \subseteq
              ManifestFiles(hist.gCfg)
                \cup UNION {EntryOutputs(e[1], e[2]) : e \in cmd.regenerate_files}
        /\ \A e \in ConfigEntries(hist.gCfg) \ cmd.regenerate_files :
              \A o \in EntryOutputs(e[1], e[2]) :
                  FilesAt(outputDir, o) = FilesAt(hist.gOut, o)

RECURSIVE SumSeq(_)
SumSeq(q) == IF q = << >> THEN 0 ELSE Head(q) + SumSeq(Tail(q))

\* The (screenshot, size) pairs of a config, in a given regenerate list, whose
\* source file satisfies Ok; an entry listed twice counts twice.
PairCount(config, only, Ok(_, _)) ==
    SumSeq([k \in 1..Len(config.platforms) |->
        LET pcfg == config.platforms[k]
        IN  SumSeq([j \in 1..Len(pcfg.screenshots) |->
                IF /\ (only = {} \/ <<pcfg.key, pcfg.screenshots[j].file>> \in only)
                   /\ Ok(pcfg.key, pcfg.screenshots[j].file)
                THEN Len(SIZES(pcfg.key)) ELSE 0])])

SourceExists(p, file) == \E f \in inputDir[p].files : f.name = file

SourceReadable(p, file) ==
    \E f \in inputDir[p].files : f.name = file /\ f.content.readable

\* C11: once generate() has read the config it always returns normally, with
\* the reports written: every size of every selected screenshot whose source
\* file exists has been attempted, whatever failed before it, and
\* total_generated is the number of (screenshot, size) pairs that succeeded.
PerItemIsolation ==
    (pc = "done" /\ hist.phase = "generate" /\ hist.gCfg.exists) =>
        /\ exitCode = 0
        /\ hist.attempted
              = PairCount(hist.gCfg, cmd.regenerate_files, SourceExists)
        /\ hist.total
              = PairCount(hist.gCfg, cmd.regenerate_files, SourceReadable)
        /\ \A m \in ManifestFiles(hist.gCfg) :
              m \in hist.written /\ FilesAt(outputDir, m) # {}

\* A screenshot whose source does not decode came first, every size of it
\* failed, and the screenshot after it was still generated.
PerItemIsolationWitness ==
    /\ GenerateReturned
    /\ hist.total > 0 /\ hist.attempted > hist.total
    /\ \E k \in 1..Len(hist.gCfg.platforms) :
          LET pcfg == hist.gCfg.platforms[k]
          IN  \E i \in 1..Len(pcfg.screenshots), j \in 1..Len(pcfg.screenshots) :
                /\ i < j
                /\ SourceExists(pcfg.key, pcfg.screenshots[i].file)
                /\ ~SourceReadable(pcfg.key, pcfg.screenshots[i].file)
                /\ \A o \in EntryOutputs(pcfg.key, pcfg.screenshots[j].file) :
                      o \in hist.written

StrictlyAscendingRanks(q) ==
    \A i \in 1..Len(q), j \in 1..Len(q) : i < j => q[i].rank < q[j].rank

\* C13 (as stated): the list analyze_and_rank_screenshots returns is in
\* strictly ascending order of rank, from the oracle and from the fallback
\* alike, and the screenshots of a config written in auto-order mode keep
\* that order.
RankOrdered ==
    /\ \A k \in 1..Len(hist.ranked) : StrictlyAscendingRanks(hist.ranked[k].results)
    /\ (configFile.exists /\ configFile.auto_ordered) =>
          \A k \in 1..Len(configFile.platforms) :
              StrictlyAscendingRanks(configFile.platforms[k].screenshots)

\* C14: analyze(preserve_names=True) leaves the input tree as it found it, at
\* every step and through the generate() of --auto, and every entry of the
\* config it writes has file = original_name = the name of a file on disk,
\* one entry for each image.
PreserveNamesMovesNothing ==
    /\ (cmd.preserve_names /\ hist.phase # "none") => inputDir = hist.aIn
    /\ (cmd.preserve_names /\ hist.saved) =>
          \A k \in 1..Len(configFile.platforms) :
              LET pcfg == configFile.platforms[k]
                  ss   == pcfg.screenshots
              IN  /\ \A j \in 1..Len(ss) :
                        /\ ss[j].file = ss[j].original_name
                        /\ \E f \in hist.aIn[pcfg.key].files : f.name = ss[j].file
                        /\ \E f \in inputDir[pcfg.key].files : f.name = ss[j].file
                  /\ {ss[j].file : j \in 1..Len(ss)} = ImageNames(hist.aIn[pcfg.key])

PreserveNamesMovesNothingWitness ==
    /\ pc = "done" /\ exitCode = 0 /\ hist.saved /\ cmd.preserve_names
    /\ hist.aIn = T_stem /\ inputDir = T_stem
    /\ Len(configFile.platforms) = 1
    /\ Len(configFile.platforms[1].screenshots) = 2
    /\ configFile.platforms[1].screenshots[2].title = T_MyMap

\* Two names that differ only in which space separator stands where.
SameUpToSeparators(a, b) ==
    /\ Len(a) = Len(b)
    /\ \A i \in 1..Len(a) : a[i] = b[i] \/ {a[i], b[i]} \subseteq {" ", NBSP, NNBSP}

\* C15: in the first pass of analyze(), a record whose original_name equals,
\* up to the space separators used, the name of a file not yet matched has
\* such a file moved (to its temporary name, from which the second pass
\* renames it); a record that matches no such file is skipped and no file
\* moves.
WhitespaceMatch ==
    [][(pc = "a_pass1" /\ loc.i <= Len(loc.ranked_results)) =>
          LET rec   == loc.ranked_results[loc.i]
              p     == Platforms[loc.pidx]
              cands == {n \in {loc.file_map[x] : x \in 1..Len(loc.file_map)} :
                           SameUpToSeparators(n, rec.original_name)}
          IN  IF cands # {}
              THEN \E n \in cands :
                      /\ \A f \in inputDir'[p].files : f.name # n
                      /\ \E f \in inputDir'[p].files :
                            /\ f.name = TempPrefix \o Format02d(rec.rank) \o <<"_">>
                                           \o stem(n) \o DotPng
                            /\ \E g \in inputDir[p].files :
                                  g.name = n /\ g.content = f.content
              ELSE /\ inputDir' = inputDir
                   /\ pc' = "a_pass1"
                   /\ loc'.i = loc.i + 1]_vars

\* The file on disk has U+202F, the record U+00A0, and the file has been
\* renamed after the record.
WhitespaceMatchWitness ==
    /\ pc = "done" /\ exitCode = 0 /\ hist.saved
    /\ Len(hist.ranked) > 0
    /\ hist.ranked[1].kind = "list"
    /\ Len(hist.ranked[1].results) = 1
    /\ hist.ranked[1].results[1].original_name = N_ab_nbsp
    /\ \E f \in hist.aIn["android"].files : f.name = N_ab_nb
    /\ NamesOf(inputDir["android"].files) = {N_01_Map}

\* str.lower() of one character of the model's alphabet.
Lower(c) ==
    CASE c = "E" -> "e" [] c = "G" -> "g" [] c = "J" -> "j"
      [] c = "M" -> "m" [] c = "N" -> "n" [] c = "P" -> "p"
      [] OTHER -> c

LowerSuffix(n) == [i \in 1..Len(suffix(n)) |-> Lower(suffix(n)[i])]

\* C16 (as stated): the scan of analyze() takes exactly the files whose
\* suffix, lower-cased, is .png, .jpg or .jpeg.
ScanCaseInsensitive ==
    pc \in {"a_rank", "a_single"} =>
        {loc.image_files[i] : i \in 1..Len(loc.image_files)}
            = {n \in NamesOf(inputDir[Platforms[loc.pidx]].files) :
                   LowerSuffix(n) \in { <<".", "p", "n", "g">>, <<".", "j", "p", "g">>,
                                        <<".", "j", "p", "e", "g">> }}

(***************************************************************************)
(* Properties of the text fitter and the compositor                        *)
(***************************************************************************)

FitterReturned == fnPc \in {"fitted", "done", "raised"}

\* C17: calculate_optimal_font_size returns a title size that is at least
\* int(0.025 * canvas_height), a subtitle size that is at least
\* int(0.02 * canvas_height) and a total height that is at most the canvas
\* height, for every text and every canvas of the size table.
FitterFloors ==
    FitterReturned =>
        /\ fnRes.returned[1] >= IntTimes(fnArg.target_size[2], 25, 1000)
        /\ fnRes.returned[2] >= IntTimes(fnArg.target_size[2], 2, 100)
        /\ fnRes.returned[3] <= fnArg.target_size[2]

\* The sizes and the height computed with a freshly loaded font at every
\* size, that is, by a processor that has no cache.
RECURSIVE ShrinkCold(_, _, _, _, _)
ShrinkCold(text, size, min_size, max_text_width, fonts) ==
    IF size > min_size
    THEN IF textbbox(text, LoadFont(fonts, size)).width <= max_text_width
         THEN size
         ELSE ShrinkCold(text, size - 2, min_size, max_text_width, fonts)
    ELSE size

FitCold(title, subtitle, target_size, fonts) ==
    LET max_text_width == IntTimes(target_size[1], 90, 100)
        title_size == ShrinkCold(title, IntTimes(target_size[2], 5, 100),
                                 IntTimes(target_size[2], 25, 1000),
                                 max_text_width, fonts)
        subtitle_size == ShrinkCold(subtitle, IntTimes(target_size[2], 3, 100),
                                    IntTimes(target_size[2], 2, 100),
                                    max_text_width, fonts)
        title_height == textbbox(title, LoadFont(fonts, title_size)).height
        subtitle_height == textbbox(subtitle, LoadFont(fonts, subtitle_size)).height
    IN  <<title_size, subtitle_size,
          title_height + IntTimes(title_height, 3, 10) + subtitle_height>>

FitterPcs == {"title_loop", "subtitle_loop", "measure"}

\* A step of the routine changes its own locals and the font cache only.
FitterTouchesCacheOnly ==
    fnPc \in FitterPcs =>
        /\ UNCHANGED <<fnArg, pipelineVars>>
        /\ font_cache \subseteq font_cache'
        /\ fnRes'.title = fnRes.title
        /\ fnRes'.subtitle = fnRes.subtitle

\* C18: calculate_optimal_font_size returns the triple that its arguments
\* alone determine, whatever fonts the cache holds when it is called, so two
\* calls with the same arguments return the same triple; and a step of the
\* routine changes nothing but its own locals and the font cache.
FitterDeterministic ==
    /\ [](FitterReturned =>
             fnRes.returned = FitCold(fnRes.title, fnRes.subtitle,
                                      fnArg.target_size, fnArg.fonts))
    /\ [][FitterTouchesCacheOnly]_vars

\* A call that returns while the cache holds title fonts smaller than the one
\* it settled on, left there by an earlier call with a longer title.
FitterDeterministicWitness ==
    /\ fnPc = "fitted"
    /\ fnArg.fonts = "truetype"
    /\ fnRes.title = [em |-> 1200]
    /\ fnRes.returned[1] < IntTimes(fnArg.target_size[2], 5, 100)
    /\ \E e \in font_cache :
          /\ e.size < fnRes.returned[1]
          /\ e.size > IntTimes(fnArg.target_size[2], 3, 100)

WidthAt(text, size) == textbbox(text, LoadFont(fnArg.fonts, size)).width

\* Inside the loops every larger size that was tried overflowed, the sizes
\* tried are a whole number of steps of 2 below the start, and the size is
\* not more than one step below the floor.
ShrinkProgress ==
    /\ fnPc = "title_loop" =>
          /\ \A s \in (fnRes.title_size + 1)..IntTimes(fnArg.target_size[2], 5, 100) :
                (s - fnRes.title_size) % 2 = 0 =>
                    WidthAt(fnRes.title, s) > fnRes.max_text_width
          /\ (IntTimes(fnArg.target_size[2], 5, 100) - fnRes.title_size) % 2 = 0
          /\ fnRes.title_size > fnRes.min_title_size - 2
    /\ fnPc = "subtitle_loop" =>
          /\ \A s \in (fnRes.subtitle_size + 1)..IntTimes(fnArg.target_size[2], 3, 100) :
                (s - fnRes.subtitle_size) % 2 = 0 =>
                    WidthAt(fnRes.subtitle, s) > fnRes.max_text_width
          /\ (IntTimes(fnArg.target_size[2], 3, 100) - fnRes.subtitle_size) % 2 = 0
          /\ fnRes.subtitle_size > fnRes.min_subtitle_size - 2

\* A loop goes on, by one step of 2, exactly while the size is above the floor
\* and the text is too wide; otherwise it stops and keeps the size.
ShrinkStops ==
    /\ fnPc = "title_loop" =>
          IF /\ fnRes.title_size > fnRes.min_title_size
             /\ WidthAt(fnRes.title, fnRes.title_size) > fnRes.max_text_width
          THEN fnPc' = "title_loop" /\ fnRes'.title_size = fnRes.title_size - 2
          ELSE fnPc' = "subtitle_loop" /\ fnRes'.title_size = fnRes.title_size
    /\ fnPc = "subtitle_loop" =>
          IF /\ fnRes.subtitle_size > fnRes.min_subtitle_size
             /\ WidthAt(fnRes.subtitle, fnRes.subtitle_size) > fnRes.max_text_width
          THEN fnPc' = "subtitle_loop" /\ fnRes'.subtitle_size = fnRes.subtitle_size - 2
          ELSE fnPc' = "measure" /\ fnRes'.subtitle_size = fnRes.subtitle_size

\* C19: both shrink loops of calculate_optimal_font_size end for every input:
\* a loop stops at the first size whose width is at most 90% of the canvas
\* width, or after finitely many steps of 2 once the floor is reached, and the
\* routine then returns normally, also when the text still overflows.
FitterTerminates ==
    /\ (fnPc = "title_loop") ~> (fnPc = "fitted")
    /\ []ShrinkProgress
    /\ [][ShrinkStops]_vars

\* The routine has returned sizes at which both texts are still too wide.
FitterTerminatesWitness ==
    /\ fnPc = "fitted"
    /\ WidthAt(fnRes.title, fnRes.returned[1]) > fnRes.max_text_width
    /\ WidthAt(fnRes.subtitle, fnRes.returned[2]) > fnRes.max_text_width
    /\ fnRes.returned[1] < IntTimes(fnArg.target_size[2], 5, 100)

\* target_ratio >= screenshot_ratio, in whole numbers
NotWider ==
    fnRes.shot[1] * fnRes.available_height <= fnRes.available_width * fnRes.shot[2]

\* C20: when the screenshot's width/height ratio is not greater than the ratio
\* of the available area, create_screenshot_with_text fits it to height:
\* new_height is available_height, new_width is floor(new_height * ratio) and
\* at most available_width, and the paste position x is
\* (canvas_width - new_width) // 2, with 0 <= x and x + new_width <=
\* canvas_width, so nothing is cropped on the left or the right.
FitToHeight ==
    (fnPc = "done" /\ NotWider) =>
        /\ fnRes.new_height = fnRes.available_height
        /\ fnRes.new_width = (fnRes.new_height * fnRes.shot[1]) \div fnRes.shot[2]
        /\ fnRes.new_width <= fnRes.available_width
        /\ fnRes.screenshot_x = (fnArg.target_size[1] - fnRes.new_width) \div 2
        /\ fnRes.screenshot_x >= 0
        /\ fnRes.screenshot_x + fnRes.new_width <= fnArg.target_size[1]

\* A portrait screenshot composed into an area that is less narrow than it.
FitToHeightWitness ==
    /\ fnPc = "done"
    /\ fnRes.shot[1] < fnRes.shot[2]
    /\ fnRes.available_width < fnRes.available_height
    /\ fnRes.shot[1] * fnRes.available_height < fnRes.available_width * fnRes.shot[2]
    /\ fnRes.new_width < fnRes.available_width
    /\ fnRes.screenshot_x > 0

\* C21: the top edge of the pasted screenshot (screenshot_y) is the bottom of
\* the text area (text_area_height): the screenshot sits directly below the
\* text block.
ScreenshotBelowText ==
    fnPc = "done" => fnRes.screenshot_y = fnRes.text_area_height

(***************************************************************************)
(* Properties of main()                                                    *)
(***************************************************************************)

ActionFlags(args) ==
    {f \in {"analyze", "generate", "auto", "regenerate"} :
        IF f = "regenerate" THEN args.regenerate # {} ELSE args[f]}

\* C22: whatever combination of --analyze, --generate, --auto and --regenerate
\* is given, main() calls at most one of the entry points auto(),
\* generate(regenerate_files), analyze() and generate(), and the one it calls
\* was asked for by a flag.
ExclusiveActions ==
    fnPc \in {"running", "exited"} =>
        /\ Len(fnRes.called) <= 1
        /\ \A i \in 1..Len(fnRes.called) : fnRes.called[i] \in ActionFlags(fnArg)
        /\ ActionFlags(fnArg) # {} => Len(fnRes.called) = 1

\* All four action flags were given and one entry point was called.
ExclusiveActionsWitness ==
    /\ fnPc = "exited"
    /\ ActionFlags(fnArg) = {"analyze", "generate", "auto", "regenerate"}
    /\ fnRes.called = <<"auto">>

FilesUntouched ==
    /\ inputDir = T_ab
    /\ outputDir = EmptyOutput
    /\ configFile = NoConfig

\* C23: with none of --analyze, --generate, --auto, --regenerate, main()
\* prints the usage and exits with status 1, without constructing the
\* pipeline, calling an entry point or touching a file; and when the called
\* entry point raises an exception or is interrupted, the exit status is 1.
UsageAndFailureExit ==
    /\ ActionFlags(fnArg) = {} =>
          /\ ~fnRes.constructed
          /\ fnRes.called = << >>
          /\ FilesUntouched
          /\ fnPc = "exited" => (fnRes.usage /\ fnRes.exit = <<1>>)
    /\ (fnPc = "exited" /\ fnRes.outcome \in {"Exception", "KeyboardInterrupt"}) =>
          fnRes.exit = <<1>>
    /\ fnRes.usage => ActionFlags(fnArg) = {}

\* Only --preserve-names was given: the usage was printed and main() exited.
UsageAndFailureExitWitness ==
    /\ fnPc = "exited"
    /\ fnArg.preserve_names
    /\ ActionFlags(fnArg) = {}
    /\ fnRes.usage
    /\ fnRes.exit = <<1>>

(***************************************************************************)
(* Properties of the two passes and of the handoff                         *)
(***************************************************************************)

\* The final name the second pass gives to the k-th moved file.
FinalOf(k) ==
    new_name(loc.temp_mappings[k].result.rank, loc.temp_mappings[k].result.title)

\* In the second pass, a matched source file is found under the name it had
\* when analyze() began only if the second pass has already written that name
\* as a final name.
NoSourceLeftInSecondPass ==
    pc = "a_pass2" =>
        \A k \in 1..Len(loc.temp_mappings) :
            LET p    == Platforms[loc.pidx]
                name == loc.temp_mappings[k].actual_name
            IN  (/\ HasFile(inputDir[p].files, name)
                 /\ ContentOf(inputDir[p].files, name)
                       = ContentOf(hist.aIn[p].files, name))
                    => \E j \in 1..(loc.i - 1) : FinalOf(j) = name

\* The oracle's list gives each of two files the name the other one has.
IsSwap(r) ==
    /\ r.kind = "list"
    /\ r.shape = "ok"
    /\ Len(r.results) = 2
    /\ r.results[1].original_name # r.results[2].original_name
    /\ \A i \in 1..2 : \E n \in 1..Len(r.image_files) :
          r.image_files[n] = r.results[i].original_name
    /\ new_name(r.results[1].rank, r.results[1].title) = r.results[2].original_name
    /\ new_name(r.results[2].rank, r.results[2].title) = r.results[1].original_name

\* A step of the second pass is never followed by a step of the first pass
\* of the same platform.
PassesInOrder ==
    pc = "a_pass2" => pc' # "a_pass1"

\* C24: within one platform every move of a source file to its temporary
\* name comes before any move to a final name, so when the first final name
\* is written no matched source file is left under its original name; and
\* when two files swap names, both are still there afterwards, each under
\* the name of the other.
TwoPassOrdering ==
    /\ []NoSourceLeftInSecondPass
    /\ [][PassesInOrder]_vars
    /\ []((hist.saved /\ ~cmd.preserve_names /\ Len(hist.ranked) = 1
             /\ IsSwap(hist.ranked[1])) =>
            LET before == hist.aIn[hist.ranked[1].platform].files
                after  == inputDir[hist.ranked[1].platform].files
                a      == hist.ranked[1].results[1].original_name
                b      == hist.ranked[1].results[2].original_name
            IN  /\ NamesOf(after) = NamesOf(before)
                /\ ContentOf(after, a) = ContentOf(before, b)
                /\ ContentOf(after, b) = ContentOf(before, a))

\* 01_Map.png and 02_Map.png have swapped names and analyze() has finished.
TwoPassOrderingWitness ==
    /\ hist.saved
    /\ Len(hist.ranked) = 1
    /\ IsSwap(hist.ranked[1])
    /\ ContentOf(inputDir["android"].files, N_01_Map).id = N_02_Map
    /\ ContentOf(inputDir["android"].files, N_02_Map).id = N_01_Map

(***************************************************************************)
(* Properties of the oracle requests                                       *)
(***************************************************************************)

SingleFallback ==
    [title |-> T_GetHooked, subtitle |-> FallbackSubtitle,
     detected_content |-> <<"unknown">>, confidence |-> 0]

\* C25: one call of analyze_and_rank_screenshots or of analyze_screenshot
\* sends exactly one request to the oracle; after a failure the call returns
\* the fallback and sends no other request.
NoRetry ==
    /\ fnRes.requests <= 1
    /\ fnPc \in {"answered", "returned"} => fnRes.requests = 1
    /\ (fnPc = "returned" /\ Failed(fnArg, fnRes.answer)) =>
          fnRes.result = IF fnArg.method = "rank"
                         THEN Fallback(fnArg.paths)
                         ELSE SingleFallback

\* A ranking of two images whose request raised: the fallback was returned
\* after one request.
NoRetryWitness ==
    /\ fnPc = "returned"
    /\ fnArg.method = "rank"
    /\ Len(fnArg.paths) = 2
    /\ fnRes.answer.kind = "error"
    /\ fnRes.requests = 1
    /\ fnRes.result = Fallback(fnArg.paths)

\* C26: one call of analyze() sends exactly one request to the oracle, for
\* every input tree and in either mode.
OneRoundTrip ==
    hist.saved => hist.requests = 1

AnalyzePcs ==
    {"a_platform", "a_rank", "a_pass1", "a_pass2", "a_build", "a_single", "a_save"}

\* Wherever analyze() stands before its write, and where it ended without
\* the write, the config document is what it was when analyze() began.
ConfigAsBeforeUntilSaved ==
    /\ pc \in AnalyzePcs => configFile = hist.aCfg
    /\ (pc = "done" /\ hist.phase = "analyze" /\ ~hist.saved) =>
          configFile = hist.aCfg

\* The config document changes only in the write at the end of analyze(),
\* and after that write no file of Input/ is renamed.
SavedLast ==
    /\ configFile' # configFile => (pc = "a_save" /\ ~hist.saved /\ hist'.saved)
    /\ hist.saved => inputDir' = inputDir

\* C27: analyze() writes the config document once, after the renames of
\* every platform, and renames nothing after the write; so a run that stops
\* anywhere before the write leaves the document absent or as it was before
\* the run, possibly with files renamed or still under '_temp_' names.
ConfigWrittenLast ==
    /\ []ConfigAsBeforeUntilSaved
    /\ [][SavedLast]_vars

\* analyze() stands in the second platform with an image under a '_temp_'
\* name and the first platform's image renamed, and the config document on
\* disk is still the one of the earlier run.
ConfigWrittenLastWitness ==
    /\ pc = "a_pass2"
    /\ loc.pidx = 2
    /\ hist.aCfg = C_old
    /\ configFile = C_old
    /\ inputDir["android"] # hist.aIn["android"]
    /\ \E f \in inputDir["ios_iphone"].files : HasTempPrefix(f.name)

\* C28: after analyze() has completed in auto-order mode, every screenshot
\* entry of the written config names a file that exists in Input/<platform>/
\* and distinct entries of a platform name distinct files, so generate()
\* finds a source file for every entry.
HandoffConsistent ==
    (hist.saved /\ ~cmd.preserve_names) =>
        \A k \in 1..Len(configFile.platforms) :
            LET ss == configFile.platforms[k].screenshots
                p  == configFile.platforms[k].key
            IN  /\ \A j \in 1..Len(ss) : HasFile(inputDir[p].files, ss[j].file)
                /\ \A i \in 1..Len(ss), j \in 1..Len(ss) :
                      ss[i].file = ss[j].file => i = j

\* C29: whenever text_area_height < canvas_height, the pasted screenshot
\* lies inside the canvas and below the text area: new_width <=
\* available_width, new_height <= available_height, text_area_height <=
\* screenshot_y, screenshot_y + new_height <= canvas_height, 0 <=
\* screenshot_x and screenshot_x + new_width <= canvas_width, for every source
\* size, canvas size and scale factor.
PastedInsideCanvas ==
    (fnPc = "done" /\ fnRes.text_area_height < fnArg.target_size[2]) =>
        /\ fnRes.new_width <= fnRes.available_width
        /\ fnRes.new_height <= fnRes.available_height
        /\ fnRes.screenshot_y >= fnRes.text_area_height
        /\ fnRes.screenshot_y + fnRes.new_height <= fnArg.target_size[2]
        /\ fnRes.screenshot_x >= 0
        /\ fnRes.screenshot_x + fnRes.new_width <= fnArg.target_size[1]

\* A landscape screenshot fitted to the full width of the canvas (scale 1).
PastedInsideCanvasWitness ==
    /\ fnPc = "done"
    /\ fnRes.screenshot_scale = 100
    /\ fnRes.shot[1] > fnRes.shot[2]
    /\ fnRes.new_width = fnArg.target_size[1]
    /\ fnRes.screenshot_x = 0
    /\ fnRes.new_height < fnRes.available_height

(***************************************************************************)
(* Properties of the icon generator                                        *)
(***************************************************************************)

IsMarketing(definition) ==
    definition.idiom = "universal" /\ definition.platform = "ios"

\* C30: iOSIconGenerator.generate writes pairwise distinct file names, adds
\* one Contents.json entry per file written and returns that count; a
\* universal iOS definition gives three files (plain, dark, tinted) and every
\* other definition one, which is 13 for the table as shipped; and an entry
\* has an appearances tag exactly when it is a dark or tinted variant.
IconSetConsistent ==
    fnPc = "done" =>
        LET n == fnRes.returned[1]
            entries == fnRes.contents_json
        IN  /\ Cardinality(fnRes.files) = n
            /\ Len(entries) = n
            /\ {entries[i].filename : i \in 1..n} = {f.name : f \in fnRes.files}
            /\ \A i \in 1..n, j \in 1..n :
                  entries[i].filename = entries[j].filename => i = j
            /\ n = SumSeq([k \in 1..Len(fnArg) |->
                              IF IsMarketing(fnArg[k]) THEN 3 ELSE 1])
            /\ fnArg = IOS_ICON_DEFINITIONS => n = 13
            /\ \A f \in fnRes.files :
                  f.mode \in {"dark", "tinted"} =>
                      \E k \in 1..Len(fnArg) :
                          /\ IsMarketing(fnArg[k])
                          /\ fnArg[k].pt_size * fnArg[k].scale = f.pixel_size
            /\ \A i \in 1..n :
                  LET f == CHOOSE g \in fnRes.files : g.name = entries[i].filename
                  IN  ("appearances" \in DOMAIN entries[i])
                          <=> f.mode \in {"dark", "tinted"}

\* The whole table as shipped was generated: 13 files.
IconSetConsistentWitness ==
    /\ fnPc = "done"
    /\ fnArg = IOS_ICON_DEFINITIONS
    /\ fnRes.returned = <<13>>
    /\ Cardinality(fnRes.files) = 13
    /\ \E i \in 1..Len(fnRes.contents_json) :
          "appearances" \in DOMAIN fnRes.contents_json[i]

=============================================================================
